---- MODULE Spec2Model ----
(***************************************************************************)
(* Model of the analytical core of projeto-dados-economicos:               *)
(*   - EconomicPredictor (src/ml_models.py): prepare_data, train_model,    *)
(*     predict_future, get_feature_importance and the persisted artifacts; *)
(*   - MLModule._show_model_status (src/modules/ml_module.py);             *)
(*   - EconomicAnalyzer (src/ai_report_generator.py): analyze_trend,       *)
(*     detect_outliers, _classify_correlation.                             *)
(* Real numbers are kept exact: a quotient is a pair of integers, a square *)
(* root is kept as the integer it is the root of.                          *)
(***************************************************************************)
EXTENDS Integers, Sequences, FiniteSets, TLC

VARIABLES
    db,          \* the series store: indicator -> what load_data yields
    files,       \* the model directory: path -> file content
    lastOp,      \* the last call made on the predictor and what it returned
    everTrained, \* history: indicators for which some train_model succeeded
    preFiles,    \* history: the model directory before the last call
    data,        \* the DataFrame handed to the analyzer
    trendRes,    \* what analyze_trend returned for data
    outlierRes,  \* what detect_outliers returned for data
    corrIn,      \* the argument of _classify_correlation
    corrRes,     \* what _classify_correlation returned
    normalized,  \* prepare_data: the frame after sorting and de-duplication
    prepRes,     \* what prepare_data returned
    corrLoads,   \* analyze_correlation: indicator -> what load_data yields
    corrMap,     \* what analyze_correlation returned
    insightIndicator, \* the indicator handed to generate_insights
    insightRes,  \* what generate_insights returned
    firstInsights, \* history: what the first generate_insights call returned
    stats,       \* BCBDataCollector.stats
    calls,       \* the _make_request calls in progress: task -> position and locals
    requestLog,  \* history: the attempts and waits of the _make_request calls
    results,     \* collect_indicator_batch: the dict it builds
    report,      \* what generate_economic_overview returned
    examined,    \* history: the forecasts the overviews were given, and their labels
    session,     \* st.session_state
    logged       \* history: the actions handed to log_action, in order

vars == <<db, files, lastOp, everTrained, preFiles,
          data, trendRes, outlierRes, corrIn, corrRes,
          normalized, prepRes, corrLoads, corrMap,
          insightIndicator, insightRes, firstInsights,
          stats, calls, requestLog, results, report, examined, session, logged>>

prepVars == <<normalized, prepRes>>
corrMapVars == <<corrLoads, corrMap>>
insightVars == <<insightIndicator, insightRes, firstInsights>>
collectorVars == <<stats, calls, requestLog, results>>
sessionVars == <<session, logged>>
reportVars == <<report, examined>>
restVars == <<collectorVars, reportVars, sessionVars>>
mlVars == <<db, files, lastOp, everTrained, preFiles, prepVars>>
analyzerVars == <<data, trendRes, outlierRes, corrIn, corrRes,
                  corrMapVars, insightVars>>

(***************************************************************************)
(* Bounds of the model.                                                    *)
(***************************************************************************)
MaxSteps == 3      \* predict_future is called with steps in 0..MaxSteps
MaxTheta == 1      \* fitted regressors considered per training set: 0..MaxTheta
MaxLen == 4        \* analyzer DataFrames have 0..MaxLen rows
MaxDen == 20       \* correlations are the quotients n/d with d in 1..MaxDen
MaxCorrLen == 4    \* analyze_correlation: the series span 1..MaxCorrLen days
MaxExtra == 2      \* prepare_data: series of up to SufficientLen + MaxExtra rows
MaxRetries == 3    \* _make_request is called with retries in 0..MaxRetries
BatchRetries == 1  \* max_retries of the collector that runs a batch

(***************************************************************************)
(* Program constants.                                                      *)
(***************************************************************************)
NaN == -999                 \* np.nan; no stored value equals it
WindowSize == 6             \* prepare_data(window_size=6)
MinRows == 20               \* if len(df) < 20
BaseYear == 2020            \* first year of the stored series
MaxInsights == 5            \* config.reports.max_insights_per_indicator
MaxWorkers == 3             \* ThreadPoolExecutor(max_workers=3)

Min(a, b) == IF a < b THEN a ELSE b
Max(a, b) == IF a > b THEN a ELSE b
Abs(a) == IF a < 0 THEN 0 - a ELSE a
Range(s) == {s[k] : k \in 1..Len(s)}
Reverse(s) == [k \in 1..Len(s) |-> s[Len(s) + 1 - k]]

RECURSIVE SumSeq(_)
SumSeq(s) == IF s = <<>> THEN 0 ELSE s[1] + SumSeq(Tail(s))

(***************************************************************************)
(* Timestamps: calendar dates [y, m, d].                                   *)
(***************************************************************************)
IsLeap(y) == (y % 4 = 0 /\ y % 100 # 0) \/ y % 400 = 0

DaysInMonth(y, m) ==
    IF m = 2 THEN (IF IsLeap(y) THEN 29 ELSE 28)
    ELSE IF m \in {4, 6, 9, 11} THEN 30 ELSE 31

DateLess(a, b) ==
    \/ a.y < b.y
    \/ a.y = b.y /\ a.m < b.m
    \/ a.y = b.y /\ a.m = b.m /\ a.d < b.d

MonthIndex(date) == date.y * 12 + (date.m - 1)

\* date + pd.DateOffset(months=k): the month moves by k, the day is kept
\* unless the target month is shorter, and is then its last day.
AddMonths(date, k) ==
    LET t == MonthIndex(date) + k
        y == t \div 12
        m == (t % 12) + 1
    IN  [y |-> y, m |-> m, d |-> Min(date.d, DaysInMonth(y, m))]

\* Days since 0001-01-01, as datetime.toordinal counts them.
RECURSIVE DaysBeforeMonth(_, _)
DaysBeforeMonth(y, m) ==
    IF m = 1 THEN 0 ELSE DaysBeforeMonth(y, m - 1) + DaysInMonth(y, m - 1)

ToOrdinal(date) ==
    LET y == date.y - 1
    IN  y * 365 + (y \div 4) - (y \div 100) + (y \div 400)
        + DaysBeforeMonth(date.y, date.m) + date.d

(***************************************************************************)
(* The series a store can hold.                                            *)
(***************************************************************************)
\* The k-th monthly timestamp (k = 0, 1, ...) counted from January of
\* BaseYear: month ends (pd.date_range(..., freq='M')) or month starts.
MkDate(k, monthEnd) ==
    LET y == BaseYear + (k \div 12)
        m == (k % 12) + 1
    IN  [y |-> y, m |-> m, d |-> IF monthEnd THEN DaysInMonth(y, m) ELSE 1]

Val(shape, k) ==
    CASE shape = "ramp" -> k
      [] shape = "saw"  -> k % 3
      [] OTHER          -> 2

\* A series of n monthly rows; the row at position nan (0: none) has no
\* value: pd.to_numeric(..., errors='coerce') stored NaN for it.
MkSeries(n, shape, monthEnd, nan) ==
    [k \in 1..n |-> [date  |-> MkDate(k - 1, monthEnd),
                     value |-> IF k = nan THEN NaN ELSE Val(shape, k)]]

\* The least number of distinct, complete monthly rows prepare_data accepts.
SufficientLen == WindowSize + MinRows

\* load_data returned None
NoSeries ==
    [status |-> "none", n |-> 0, shape |-> "flat", monthEnd |-> FALSE, nan |-> 0,
     dup |-> 0, desc |-> FALSE]

\* What db_manager.load_data yields: a DataFrame (status "ok", named by the
\* length, shape and timestamps of its series and by how its rows are
\* stored), None, or an exception.
\* The series: one row too few for training; one row more than needed, of
\* month ends, the last one a 31st followed by a 30-day month; month starts
\* whose last row but one has no value, so that the rows with six valid
\* predecessors end two rows before the series does.
LoadOutcomes ==
    {[status |-> "ok", n |-> SufficientLen - 1, shape |-> "ramp", monthEnd |-> TRUE,
      nan |-> 0, dup |-> 0, desc |-> FALSE],
     [status |-> "ok", n |-> SufficientLen + 1, shape |-> "ramp", monthEnd |-> TRUE,
      nan |-> 0, dup |-> 0, desc |-> FALSE],
     [status |-> "ok", n |-> SufficientLen + 3, shape |-> "saw", monthEnd |-> FALSE,
      nan |-> SufficientLen + 2, dup |-> 0, desc |-> FALSE],
     NoSeries,
     [status |-> "error", n |-> 0, shape |-> "flat", monthEnd |-> FALSE, nan |-> 0,
      dup |-> 0, desc |-> FALSE]}

\* The stores prepare_data is examined on.  Complete series of month starts:
\* empty, of WindowSize rows, and of one row less than SufficientLen up to
\* MaxExtra rows more, stored in ascending or in descending order; a series
\* stored with a second row for the timestamp of its tenth row; a series with
\* a missing value; a series that gives 90 feature rows; and no series.
PrepareLoads ==
    {[status |-> "ok", n |-> n, shape |-> "ramp", monthEnd |-> FALSE, nan |-> 0,
      dup |-> 0, desc |-> desc] :
        n \in {0, WindowSize} \cup ((SufficientLen - 1)..(SufficientLen + MaxExtra)),
        desc \in BOOLEAN}
    \cup {[status |-> "ok", n |-> SufficientLen, shape |-> "ramp", monthEnd |-> FALSE,
           nan |-> 0, dup |-> 10, desc |-> desc] : desc \in BOOLEAN}
    \cup {[status |-> "ok", n |-> SufficientLen + 3, shape |-> "saw", monthEnd |-> FALSE,
           nan |-> SufficientLen + 2, dup |-> 0, desc |-> FALSE],
          [status |-> "ok", n |-> WindowSize + 90, shape |-> "saw", monthEnd |-> FALSE,
           nan |-> 0, dup |-> 0, desc |-> FALSE],
          NoSeries}

\* The rows as stored: the series, followed when dup > 0 by a second row for
\* the timestamp of row dup, carrying another value; in descending order of
\* the positions when desc.
Stored(series, dup, desc) ==
    IF desc
    THEN Reverse(IF dup = 0 THEN series
                 ELSE series \o <<[date  |-> series[dup].date,
                                   value |-> series[dup].value + 1]>>)
    ELSE IF dup = 0 THEN series
         ELSE series \o <<[date  |-> series[dup].date,
                           value |-> series[dup].value + 1]>>

\* The rows of the DataFrame a load yields.
Frame(load) ==
    Stored(MkSeries(load.n, load.shape, load.monthEnd, load.nan), load.dup, load.desc)

(***************************************************************************)
(* EconomicPredictor.prepare_data                                          *)
(***************************************************************************)
\* Column names; lag_i is built by f'lag_{i}'.
LagName == <<"lag_1", "lag_2", "lag_3", "lag_4", "lag_5", "lag_6">>

\* Row j comes before row k in the sorted frame: its timestamp is earlier,
\* or the two timestamps are equal and the sort put row j first.
\* pandas sorts with numpy's quicksort, which is not stable, so two rows of
\* one timestamp come out in either order: rev picks the order (FALSE: as
\* stored, TRUE: reversed).
ComesBefore(rows, j, k, rev) ==
    \/ DateLess(rows[j].date, rows[k].date)
    \/ rows[j].date = rows[k].date /\ (IF rev THEN j > k ELSE j < k)

\* The position of row k in the sorted frame.
Rank(rows, k, rev) ==
    1 + Cardinality({j \in 1..Len(rows) : ComesBefore(rows, j, k, rev)})

\* df.sort_values('date').reset_index(drop=True)
SortValues(rows, rev) ==
    LET at == [k \in 1..Len(rows) |-> Rank(rows, k, rev)]
    IN  [p \in 1..Len(rows) |-> rows[CHOOSE k \in 1..Len(rows) : at[k] = p]]

RECURSIVE Pick(_, _, _)
Pick(s, keep, k) ==
    IF k > Len(s) THEN <<>>
    ELSE (IF k \in keep THEN <<s[k]>> ELSE <<>>) \o Pick(s, keep, k + 1)

\* df.drop_duplicates(subset=['date'], keep='last')
DropDuplicates(df) ==
    Pick(df, {k \in 1..Len(df) : \A j \in (k + 1)..Len(df) : df[j].date # df[k].date}, 1)

\* A cell of the feature table is the quotient sum/cnt; cnt = 0 is NaN.
Cell(v) == IF v = NaN THEN [sum |-> 0, cnt |-> 0] ELSE [sum |-> v, cnt |-> 1]

\* df['value'].shift(i) at row t
Lag(df, t, i) == IF t - i >= 1 THEN df[t - i].value ELSE NaN

RECURSIVE SumValid(_, _, _)
SumValid(df, lo, hi) ==
    IF lo > hi THEN 0
    ELSE (IF df[lo].value = NaN THEN 0 ELSE df[lo].value) + SumValid(df, lo + 1, hi)

\* df['value'].rolling(window=w, min_periods=1).mean() at row t: the mean
\* sum/cnt of the valid values among the last w rows, NaN (cnt = 0) if none.
Rolling(df, t, w) ==
    LET lo == Max(1, t - w + 1)
    IN  [sum |-> SumValid(df, lo, t),
         cnt |-> Cardinality({k \in lo..t : df[k].value # NaN})]

Quarter(m) == ((m - 1) \div 3) + 1

\* The columns of df other than date and value, in the order they are added.
FeatureColumns(window) ==
    [i \in 1..window |-> LagName[i]] \o <<"ma_3", "ma_6", "month", "quarter">>

LagIndex(c) == CHOOSE i \in 1..Len(LagName) : LagName[i] = c

FeatureRow(df, t, window) ==
    [c \in Range(FeatureColumns(window)) |->
        CASE c = "ma_3"    -> Rolling(df, t, 3)
          [] c = "ma_6"    -> Rolling(df, t, 6)
          [] c = "month"   -> Cell(df[t].date.m)
          [] c = "quarter" -> Cell(Quarter(df[t].date.m))
          [] OTHER         -> Cell(Lag(df, t, LagIndex(c)))]

\* A row df.dropna() removes.
RowHasNaN(df, t, window) ==
    \/ df[t].value = NaN
    \/ \E c \in Range(FeatureColumns(window)) : FeatureRow(df, t, window)[c].cnt = 0

NoData == [ok |-> FALSE, columns |-> <<>>, X |-> <<>>, y |-> <<>>, dates |-> <<>>]

\* The positions of the rows df.dropna() keeps.
KeptRows(df, window) ==
    Pick([t \in 1..Len(df) |-> t], {t \in 1..Len(df) : ~RowHasNaN(df, t, window)}, 1)

\* A variant of FeatureTable: 20 kept rows are refused as well.
FeatureTableStrict(df, kept, window) ==
    IF Len(kept) <= MinRows THEN NoData
    ELSE [ok      |-> TRUE,
          columns |-> FeatureColumns(window),
          X       |-> [k \in 1..Len(kept) |-> FeatureRow(df, kept[k], window)],
          y       |-> [k \in 1..Len(kept) |-> df[kept[k]].value],
          dates   |-> [k \in 1..Len(kept) |-> df[kept[k]].date]]

\* if len(df) < 20: return None, None, None; else X, y, dates of the kept rows.
FeatureTable(df, kept, window) ==
    IF Len(kept) < MinRows THEN NoData
    ELSE [ok      |-> TRUE,
          columns |-> FeatureColumns(window),
          X       |-> [k \in 1..Len(kept) |-> FeatureRow(df, kept[k], window)],
          y       |-> [k \in 1..Len(kept) |-> df[kept[k]].value],
          dates   |-> [k \in 1..Len(kept) |-> df[kept[k]].date]]

\* The feature construction on the sorted, de-duplicated frame.
BuildFeatures(df, window) == FeatureTable(df, KeptRows(df, window), window)

\* df.sort_values('date').drop_duplicates(subset=['date'], keep='last')
Normalize(rows, rev) == DropDuplicates(SortValues(rows, rev))

\* prepare_data(target_indicator, window_size) on what load_data yields.
\* An exception of the load is caught and gives (None, None, None) as well.
PrepareData(load, window, rev) ==
    IF load.status # "ok" \/ load.n = 0 THEN NoData
    ELSE BuildFeatures(Normalize(Frame(load), rev), window)

\* prepare_data(target_indicator) with the default window, tabulated.
PreparedTable ==
    [load \in LoadOutcomes \cup PrepareLoads, rev \in BOOLEAN |->
        PrepareData(load, WindowSize, rev)]

Prepared(load, rev) == PreparedTable[load, rev]

\* The frame after sort_values and drop_duplicates, tabulated.
NormalizedTable ==
    [load \in PrepareLoads, rev \in BOOLEAN |-> Normalize(Frame(load), rev)]

(***************************************************************************)
(* The model directory.  A file name is the sequence of the words that the *)
(* f-string joins with "_": 'ipca_random_forest_model.pkl' is              *)
(* <<"ipca", "random", "forest", "model.pkl">>.                            *)
(***************************************************************************)
Indicators == {<<"ipca">>, <<"divida", "pib">>}

\* config.ml.available_models (two of them)
ModelTypes == {<<"random", "forest">>, <<"linear", "regression">>}

\* test_size, in percent: the default of train_model, 0.2
TestSizes == {20}

\* test_size = 1.0, in percent: nothing is left to train on
NoTrainingSize == 100

\* test_size, in percent, as the slider of the training page sets it: two of
\* its values 0.10, 0.15, ..., 0.40
SliderSizes == {20, 30}

\* EconomicPredictor.model_dir and config.ml.models_dir
ModelDir == "models"

\* f"{self.model_dir}/{target_indicator}_random_forest_model.pkl", the path
\* of predict_future and get_feature_importance
ArtifactPath(indicator) ==
    [dir |-> ModelDir, name |-> indicator \o <<"random", "forest", "model.pkl">>]

\* A variant of TrainPath: one path for every indicator.
TrainPathShared(indicator, model_type) ==
    [dir |-> ModelDir, name |-> <<"ipca", "random", "forest", "model.pkl">>]

\* The path train_model(target_indicator, model_type) writes: model_type is
\* not used.
TrainPath(indicator, model_type) ==
    [dir |-> ModelDir, name |-> indicator \o <<"random", "forest", "model.pkl">>]

\* f"{self.models_dir}/{indicator}_{model_type}_model.pkl"
StatusPath(indicator, model_type) ==
    [dir |-> ModelDir, name |-> indicator \o model_type \o <<"model.pkl">>]

AllPaths ==
    {ArtifactPath(i) : i \in Indicators}
    \cup {TrainPath(i, t) : i \in Indicators, t \in ModelTypes}
    \cup {StatusPath(i, t) : i \in Indicators, t \in ModelTypes}

NoFile == [kind |-> "none"]
\* What an interrupted joblib.dump leaves: the file is truncated on open.
Corrupt == [kind |-> "corrupt"]

Exists(fs, path) == fs[path].kind # "none"

(***************************************************************************)
(* StandardScaler and RandomForestRegressor.  The forest is a library      *)
(* black box: with random_state fixed it is a deterministic function of    *)
(* the training set and of its input, and a prediction is an average of    *)
(* training targets.  theta ranges over such functions.                    *)
(***************************************************************************)
\* The number a cell stands for, times the row count of its rolling window
\* (one count throughout a column of complete rows).
Num(v) == v.sum

RECURSIVE ColSum(_, _, _)
ColSum(X, c, k) == IF k = 0 THEN 0 ELSE Num(X[k][c]) + ColSum(X, c, k - 1)

RECURSIVE ColSumSq(_, _, _)
ColSumSq(X, c, k) ==
    IF k = 0 THEN 0 ELSE Num(X[k][c]) * Num(X[k][c]) + ColSumSq(X, c, k - 1)

\* scaler.fit(X): the per-column sums from which mean_ and scale_ follow.
FitScaler(columns, X) ==
    [n_samples_seen   |-> Len(X),
     feature_names_in |-> columns,
     col_sum          |-> [c \in Range(columns) |-> ColSum(X, c, Len(X))],
     col_sumsq        |-> [c \in Range(columns) |-> ColSumSq(X, c, Len(X))]]

\* scaler.transform(row): per column n * (x - mean_), the centred value
\* before the division by the column's scale_.
Transform(scaler, row) ==
    [c \in Range(scaler.feature_names_in) |->
        scaler.n_samples_seen * Num(row[c]) - scaler.col_sum[c]]

RECURSIVE SortedSeq(_)
SortedSeq(S) ==
    IF S = {} THEN <<>>
    ELSE LET lo == CHOOSE x \in S : \A z \in S : x <= z
         IN  <<lo>> \o SortedSeq(S \ {lo})

\* model.fit(X_train_scaled, y_train)
FitModel(columns, y_train, theta) ==
    [n_features_in |-> Len(columns),
     targets       |-> SortedSeq(Range(y_train)),
     theta         |-> theta,
     feature_importances |-> [j \in 1..Len(columns) |-> (theta + j) % 3]]

\* model.predict(scaled)[0]
Predict(model, scaled) ==
    model.targets[((model.theta + Abs(scaled["lag_1"])) % Len(model.targets)) + 1]

(***************************************************************************)
(* EconomicPredictor.train_model                                           *)
(***************************************************************************)
None == [kind |-> "None"]

\* The double 1 - test_size differs from the real 1 - test_size/100 by
\* DoubleError / (100 * 2^53); the arguments are the values of the slider,
\* 0.10, 0.15, ..., 0.40, in percent.
DoubleError(test_size) ==
    CASE test_size = 10 -> 20
      [] test_size = 15 -> 0 - 20
      [] test_size = 20 -> 40
      [] test_size = 25 -> 0
      [] test_size = 30 -> 0 - 40
      [] test_size = 35 -> 20
      [] test_size = 40 -> 0 - 20
      [] test_size = 100 -> 0

\* The largest power of two not above k (k >= 1).
RECURSIVE Pow2Floor(_)
Pow2Floor(k) == IF k < 2 THEN 1 ELSE 2 * Pow2Floor(k \div 2)

\* The doubles just below the integer k are 2^-53 * Pow2Floor(k) apart when k
\* is a power of two and twice that otherwise; the double product
\* len(X) * (1 - test_size) falls below k when the real product is k and the
\* error of the factor, times n, exceeds half of that distance.
RoundsBelow(n, k, test_size) ==
    /\ DoubleError(test_size) < 0
    /\ k > 0
    /\ n * (0 - DoubleError(test_size))
           > (IF Pow2Floor(k) = k THEN 50 * k ELSE 100 * Pow2Floor(k))

\* int(len(X) * (1 - test_size)), the product being one of doubles: where
\* the real product is no integer the truncation is that of the real
\* product; where it is the integer k, the double product is k or the
\* double below it.
SplitIdx(n, test_size) ==
    IF (n * (100 - test_size)) % 100 # 0 THEN (n * (100 - test_size)) \div 100
    ELSE IF RoundsBelow(n, (n * (100 - test_size)) \div 100, test_size)
         THEN ((n * (100 - test_size)) \div 100) - 1
         ELSE (n * (100 - test_size)) \div 100

RECURSIVE SumSqErr(_, _, _)
SumSqErr(y, p, k) ==
    IF k = 0 THEN 0 ELSE (y[k] - p[k]) * (y[k] - p[k]) + SumSqErr(y, p, k - 1)

RECURSIVE SumAbsErr(_, _, _)
SumAbsErr(y, p, k) ==
    IF k = 0 THEN 0 ELSE Abs(y[k] - p[k]) + SumAbsErr(y, p, k - 1)

\* A variant of Metrics: the dict without the key mae.
MetricsWithoutMae(y_train, y_test, y_pred_test) ==
    [r2   |-> [num |-> 0, den |-> 1],
     rmse |-> [sq_num |-> SumSqErr(y_test, y_pred_test, Len(y_test)),
               sq_den |-> Len(y_test)],
     samples_train |-> Len(y_train),
     samples_test  |-> Len(y_test)]

\* The metrics dict.  r2 = 1 - ss_res/ss_tot is the quotient num/den, rmse
\* the square root of sq_num/sq_den, mae the quotient num/den.
Metrics(y_train, y_test, y_pred_test) ==
    LET n      == Len(y_test)
        ss_res == SumSqErr(y_test, y_pred_test, n)
        sy     == SumSeq(y_test)
        syy    == SumSeq([k \in 1..n |-> y_test[k] * y_test[k]])
        ss_tot == n * syy - sy * sy
    IN  [r2   |-> [num |-> ss_tot - n * ss_res, den |-> ss_tot],
         rmse |-> [sq_num |-> ss_res, sq_den |-> n],
         mae  |-> [num |-> SumAbsErr(y_test, y_pred_test, n), den |-> n],
         samples_train |-> Len(y_train),
         samples_test  |-> Len(y_test)]

\* y_pred_test = model.predict(X_test_scaled)
PredictAll(model, scaler, X_test) ==
    [k \in 1..Len(X_test) |-> Predict(model, Transform(scaler, X_test[k]))]

\* model_data and the metrics returned with it.
ModelData(model, scaler, columns, indicator, metrics) ==
    [ok |-> TRUE,
     metrics |-> metrics,
     model_data |-> [kind             |-> "artifact",
                     model            |-> model,
                     scaler           |-> scaler,
                     feature_columns  |-> columns,
                     target_indicator |-> indicator,
                     metrics          |-> metrics]]

\* Scaling, fitting and scoring on the two partitions.
FitAndScore(columns, X_train, X_test, y_train, y_test, scaler, model, indicator) ==
    ModelData(model, scaler, columns, indicator,
              Metrics(y_train, y_test, PredictAll(model, scaler, X_test)))

\* The chronological split at split_idx; the scaler is fitted on X_train.
SplitAndFit(prep, split, indicator, theta) ==
    FitAndScore(prep.columns,
                SubSeq(prep.X, 1, split), SubSeq(prep.X, split + 1, Len(prep.X)),
                SubSeq(prep.y, 1, split), SubSeq(prep.y, split + 1, Len(prep.y)),
                FitScaler(prep.columns, SubSeq(prep.X, 1, split)),
                FitModel(prep.columns, SubSeq(prep.y, 1, split), theta),
                indicator)

\* The body of train_model up to joblib.dump, on what prepare_data returned:
\* the metrics and the model_data to persist, or failed when X is None, or
\* when a partition is empty: scaler.fit_transform and scaler.transform
\* raise ValueError on an array of 0 rows.
TrainOn(prep, indicator, test_size, theta) ==
    IF ~prep.ok THEN [ok |-> FALSE]
    ELSE IF SplitIdx(Len(prep.X), test_size) \in {0, Len(prep.X)} THEN [ok |-> FALSE]
    ELSE SplitAndFit(prep, SplitIdx(Len(prep.X), test_size), indicator, theta)

Training(load, indicator, test_size, rev, theta) ==
    TrainOn(Prepared(load, rev), indicator, test_size, theta)

\* The body of train_model, tabulated.
TrainingTable ==
    [load \in LoadOutcomes \cup PrepareLoads, indicator \in Indicators,
     test_size \in TestSizes \cup SliderSizes \cup {NoTrainingSize}, rev \in BOOLEAN, theta \in 0..MaxTheta |->
        Training(load, indicator, test_size, rev, theta)]

\* A variant of TryExcept: the exception reaches the caller.
TryExceptReraised(body) ==
    [raised |-> body.exc, result |-> IF body.exc THEN None ELSE body.result]

\* try: ... except Exception: return None, around the whole body of
\* train_model, predict_future and get_feature_importance.
TryExcept(body) ==
    [raised |-> FALSE, result |-> IF body.exc THEN None ELSE body.result]

\* What train_model returns: the metrics, or None when prepare_data gave
\* nothing or the dump raised.
TrainReturn(t, io) ==
    TryExcept([exc    |-> t.ok /\ io # "ok",
               result |-> IF t.ok THEN [kind |-> "metrics", metrics |-> t.metrics]
                          ELSE None])

\* A variant of Dump: the artifact file is opened for writing before
\* prepare_data is called.
DumpOpenedFirst(fs, path, t, io) ==
    IF io = "open" THEN fs
    ELSE [fs EXCEPT ![path] = IF t.ok /\ io = "ok" THEN t.model_data ELSE Corrupt]

\* joblib.dump(model_data, model_path).  io is what writing the file does:
\* "ok", "open" (the file cannot be opened for writing) or "partial" (the
\* write breaks off after the file was truncated).
Dump(fs, path, t, io) ==
    IF ~t.ok \/ io = "open" THEN fs
    ELSE [fs EXCEPT ![path] = IF io = "ok" THEN t.model_data ELSE Corrupt]

\* What joblib.dump did in a call of train_model: "skipped" when the call
\* returned before it.
DumpOutcome(t, io) == IF t.ok THEN io ELSE "skipped"

TrainStep(indicator, model_type, test_size, t, io) ==
    /\ files' = Dump(files, TrainPath(indicator, model_type), t, io)
    /\ lastOp' = [op |-> "train_model", indicator |-> indicator,
                  model_type |-> model_type, test_size |-> test_size,
                  dump |-> DumpOutcome(t, io),
                  raised |-> TrainReturn(t, io).raised,
                  result |-> TrainReturn(t, io).result]
    /\ everTrained' = IF TrainReturn(t, io).result.kind = "metrics"
                      THEN everTrained \cup {indicator} ELSE everTrained
    /\ preFiles' = files
    /\ UNCHANGED <<db, prepVars, analyzerVars, restVars>>

\* train_model(target_indicator, model_type, test_size)
TrainModel(indicator, model_type, test_size, rev, theta, io) ==
    TrainStep(indicator, model_type, test_size,
              TrainingTable[db[indicator], indicator, test_size, rev, theta], io)

\* prepare_data(target_indicator), called on its own: the frame it builds
\* the features from and the triple it returns.  It writes nothing.
PrepareDataCall(indicator, rev) ==
    /\ normalized' = IF db[indicator].status # "ok" \/ db[indicator].n = 0 THEN None
                      ELSE [kind |-> "frame", indicator |-> indicator,
                            rows |-> NormalizedTable[db[indicator], rev]]
    /\ prepRes' = [kind |-> "triple", indicator |-> indicator,
                   value |-> Prepared(db[indicator], rev)]
    /\ UNCHANGED <<db, files, lastOp, everTrained, preFiles, analyzerVars, restVars>>

(***************************************************************************)
(* EconomicPredictor.predict_future                                        *)
(***************************************************************************)
\* A variant of NextFeatures: the prediction becomes lag_1 of the next step.
NextFeaturesFedBack(base_features, pred) ==
    [c \in DOMAIN base_features |->
        IF c = "lag_1" THEN Cell(pred) ELSE base_features[c]]

\* The loop body leaves base_features as it is: the prediction is appended
\* to the output only.
NextFeatures(base_features, pred) == base_features

\* A variant of StepDate: each timestamp is one month after the previous
\* one, so a day clipped by a short month stays clipped.
RECURSIVE StepDateChained(_, _)
StepDateChained(base_date, step) ==
    IF step = 0 THEN AddMonths(base_date, 1)
    ELSE AddMonths(StepDateChained(base_date, step - 1), 1)

\* base_date + pd.DateOffset(months=step + 1)
StepDate(base_date, step) == AddMonths(base_date, step + 1)

\* for step in range(steps): the rows produced from step on, each with the
\* feature row that was scaled for it.
RECURSIVE ForecastLoop(_, _, _, _, _, _)
ForecastLoop(model, scaler, base_features, base_date, step, steps) ==
    IF step >= steps THEN <<>>
    ELSE LET scaled == Transform(scaler, base_features)
             pred   == Predict(model, scaled)
         IN  <<[date  |-> StepDate(base_date, step),
                value |-> pred,
                input |-> base_features]>>
             \o ForecastLoop(model, scaler, NextFeatures(base_features, pred),
                             base_date, step + 1, steps)

\* A variant of Align: the schema's columns X lacks stay without a value.
AlignUnfilled(feature_columns, columns, row) ==
    [c \in Range(feature_columns) |-> IF c \in Range(columns) THEN row[c] ELSE Cell(NaN)]

\* X[feature] = 0 for the schema's columns X lacks, then X[feature_columns]
Align(feature_columns, columns, row) ==
    [c \in Range(feature_columns) |-> IF c \in Range(columns) THEN row[c] ELSE Cell(0)]

\* The DataFrame predict_future returns, with the feature row scaled at each
\* step, the base row and date the loop started from, and the column order
\* of X_aligned = X[feature_columns].
ForecastFrame(rows, base_features, base_date, columns) ==
    [kind   |-> "forecast",
     columns |-> columns,
     rows   |-> [k \in 1..Len(rows) |-> [date |-> rows[k].date, value |-> rows[k].value]],
     inputs |-> [k \in 1..Len(rows) |-> rows[k].input],
     base_features |-> base_features,
     base_date     |-> base_date]

\* base_date = dates.iloc[-1]; base_features = X_aligned.iloc[-1:]; the loop.
ForecastFrom(model_data, base_features, base_date, steps) ==
    ForecastFrame(ForecastLoop(model_data.model, model_data.scaler, base_features,
                               base_date, 0, steps),
                  base_features, base_date, model_data.feature_columns)

\* predict_future after the artifact was loaded.
ForecastWith(model_data, prep, steps) ==
    IF ~prep.ok THEN [exc |-> FALSE, result |-> None]
    ELSE [exc |-> FALSE,
          result |-> ForecastFrom(model_data,
                                  Align(model_data.feature_columns, prep.columns,
                                        prep.X[Len(prep.X)]),
                                  prep.dates[Len(prep.dates)], steps)]

\* The body of predict_future.
Forecast(fs, load, indicator, steps, rev) ==
    IF ~Exists(fs, ArtifactPath(indicator)) THEN [exc |-> FALSE, result |-> None]
    ELSE IF fs[ArtifactPath(indicator)].kind = "corrupt" THEN [exc |-> TRUE, result |-> None]
    ELSE ForecastWith(fs[ArtifactPath(indicator)], Prepared(load, rev), steps)

PredictReturn(indicator, steps, out) ==
    [op |-> "predict_future", indicator |-> indicator,
     steps |-> steps, raised |-> out.raised, result |-> out.result]

PredictFuture(indicator, steps, rev) ==
    /\ lastOp' = PredictReturn(indicator, steps,
                               TryExcept(Forecast(files, db[indicator], indicator, steps, rev)))
    /\ preFiles' = files
    /\ UNCHANGED <<db, files, everTrained, prepVars, analyzerVars, restVars>>

(***************************************************************************)
(* EconomicPredictor.get_feature_importance                                *)
(***************************************************************************)
RECURSIVE InsertDesc(_, _)
InsertDesc(sorted, r) ==
    IF sorted = <<>> THEN <<r>>
    ELSE IF r.importance > sorted[1].importance THEN <<r>> \o sorted
         ELSE <<sorted[1]>> \o InsertDesc(Tail(sorted), r)

RECURSIVE SortDesc(_, _)
SortDesc(rows, k) ==
    IF k = 0 THEN <<>> ELSE InsertDesc(SortDesc(rows, k - 1), rows[k])

\* pd.DataFrame({'feature': ..., 'importance': ...}).sort_values(descending)
ImportanceFrame(feature_columns, importances) ==
    [kind |-> "importance",
     rows |-> SortDesc([j \in 1..Len(feature_columns) |->
                           [feature |-> feature_columns[j], importance |-> importances[j]]],
                       Len(feature_columns))]

\* The body of get_feature_importance.
Importance(fs, indicator) ==
    IF ~Exists(fs, ArtifactPath(indicator)) THEN [exc |-> FALSE, result |-> None]
    ELSE IF fs[ArtifactPath(indicator)].kind = "corrupt" THEN [exc |-> TRUE, result |-> None]
    ELSE [exc |-> FALSE,
          result |-> ImportanceFrame(fs[ArtifactPath(indicator)].feature_columns,
                                     fs[ArtifactPath(indicator)].model.feature_importances)]

ImportanceReturn(indicator, out) ==
    [op |-> "get_feature_importance", indicator |-> indicator,
     raised |-> out.raised, result |-> out.result]

GetFeatureImportance(indicator) ==
    /\ lastOp' = ImportanceReturn(indicator, TryExcept(Importance(files, indicator)))
    /\ preFiles' = files
    /\ UNCHANGED <<db, files, everTrained, prepVars, analyzerVars, restVars>>

(***************************************************************************)
(* MLModule._show_model_status and the store                               *)
(***************************************************************************)
\* Whether the UI reports an existing model of this kind for the indicator.
ShowModelStatus(indicator, model_type) ==
    /\ lastOp' = [op |-> "show_model_status", indicator |-> indicator,
                  model_type |-> model_type, raised |-> FALSE,
                  result |-> [kind   |-> "status",
                              exists |-> Exists(files, StatusPath(indicator, model_type))]]
    /\ preFiles' = files
    /\ UNCHANGED <<db, files, everTrained, prepVars, analyzerVars, restVars>>

\* The data collection saves a series, or the store stops answering.
StoreUpdate(indicator, load) ==
    /\ db[indicator] # load
    /\ db' = [db EXCEPT ![indicator] = load]
    /\ lastOp' = [op |-> "save_data", indicator |-> indicator, raised |-> FALSE,
                  result |-> None]
    /\ preFiles' = files
    /\ UNCHANGED <<files, everTrained, prepVars, analyzerVars, restVars>>

(***************************************************************************)
(* EconomicAnalyzer: the DataFrames it is given.  Weekly rows from January *)
(* 15 of BaseYear on, in stored order or reversed; a value is NaN or a     *)
(* small integer.                                                          *)
(***************************************************************************)
FrameValues == {NaN, -2, 0, 1, 2}

\* The k-th weekly timestamp: January 15, 22, 29, February 5, ...
MkDay(k) == IF k <= 3 THEN [y |-> BaseYear, m |-> 1, d |-> 8 + 7 * k]
            ELSE [y |-> BaseYear, m |-> 2, d |-> 7 * k - 23]

WeeklyFrame(values) == [k \in 1..Len(values) |-> [date |-> MkDay(k), value |-> values[k]]]

AnalyzerFrames ==
    UNION {{WeeklyFrame(v), Reverse(WeeklyFrame(v))} :
               v \in UNION {[1..n -> FrameValues] : n \in 0..MaxLen}}

(***************************************************************************)
(* EconomicAnalyzer.analyze_trend                                          *)
(***************************************************************************)
Insufficient == [kind |-> "dict", trend |-> "insufficient_data",
                 confidence |-> [num |-> 0, den |-> 1]]

\* x = days since the first date, y = value, of the rows whose value is not
\* NaN, in date order.
CleanXY(sorted) ==
    Pick([k \in 1..Len(sorted) |->
             [x |-> ToOrdinal(sorted[k].date) - ToOrdinal(sorted[1].date),
              y |-> sorted[k].value]],
         {k \in 1..Len(sorted) : sorted[k].value # NaN}, 1)

SumX(c) == SumSeq([k \in 1..Len(c) |-> c[k].x])
SumY(c) == SumSeq([k \in 1..Len(c) |-> c[k].y])
\* n * sum(xy) - sum(x) * sum(y), and the same of x with x and of y with y:
\* n^2 times the covariance and the (population) variances.
CovXY(c) == Len(c) * SumSeq([k \in 1..Len(c) |-> c[k].x * c[k].y]) - SumX(c) * SumY(c)
VarX(c) == Len(c) * SumSeq([k \in 1..Len(c) |-> c[k].x * c[k].x]) - SumX(c) * SumX(c)
VarY(c) == Len(c) * SumSeq([k \in 1..Len(c) |-> c[k].y * c[k].y]) - SumY(c) * SumY(c)

\* a * a < m for a >= 0 and an m below 2^31, without overflow
SqLess(a, m) == a <= 46340 /\ a * a < m

\* A variant of BelowThreshold: the threshold is 1% of the sample standard
\* deviation sqrt(syy / (n * (n - 1))) (ddof = 1):
\* (100 * |sxy|)^2 * n * (n - 1) < syy * sxx^2.
BelowThresholdSample(sxy, sxx, syy, n) ==
    /\ 100 * Abs(sxy) <= 46340
    /\ (100 * Abs(sxy)) * (100 * Abs(sxy)) <= ((syy * sxx * sxx) - 1) \div (n * (n - 1))

RECURSIVE Gcd(_, _)
Gcd(a, b) == IF b = 0 THEN a ELSE Gcd(b, a % b)

\* a^2 < syy * b^2 for a >= 0 and b > 0, after a and b are reduced by their
\* common divisor
SquareRatioLess(a, b, syy) ==
    (a \div Gcd(a, b)) * (a \div Gcd(a, b)) < syy * (b \div Gcd(a, b)) * (b \div Gcd(a, b))

\* slope = sxy / sxx (np.polyfit), np.std(y) = sqrt(syy) / n:
\* abs(slope) < np.std(y) * 0.01 is (100 * n * |sxy|)^2 < syy * sxx^2.
BelowThreshold(sxy, sxx, syy, n) ==
    sxx > 0 /\ SquareRatioLess(100 * n * Abs(sxy), sxx, syy)

TrendDirection(sxy, sxx, syy, n) ==
    IF BelowThreshold(sxy, sxx, syy, n) THEN "stable"
    ELSE IF sxy > 0 THEN "ascending"
    ELSE "descending"

\* ((y[-1] - y[0]) / abs(y[0])) * 100 if y[0] != 0 else 0
RecentChange(first, last) ==
    IF first # 0 THEN [num |-> 100 * (last - first), den |-> Abs(first)]
    ELSE [num |-> 0, den |-> 1]

Sign(a) == IF a > 0 THEN 1 ELSE IF a < 0 THEN -1 ELSE 0

\* np.std(y) / np.mean(y) * 100 if np.mean(y) != 0 else 0: the number
\* 100 * sqrt(syy) / sy, kept as its sign and its square sq_num / sq_den.
Volatility(syy, sy) ==
    IF sy # 0 THEN [sign   |-> IF syy = 0 THEN 0 ELSE Sign(sy),
                    sq_num |-> 10000 * syy, sq_den |-> sy * sy]
    ELSE [sign |-> 0, sq_num |-> 0, sq_den |-> 1]

\* analyze_trend after the NaN mask.  confidence is the quotient num/den,
\* NaN when den = 0 (np.corrcoef of constant values).
TrendOf(c) ==
    IF Len(c) < 2 THEN Insufficient
    ELSE [kind       |-> "dict",
          trend      |-> TrendDirection(CovXY(c), VarX(c), VarY(c), Len(c)),
          slope      |-> [num |-> CovXY(c), den |-> VarX(c)],
          confidence |-> [num |-> CovXY(c) * CovXY(c), den |-> VarX(c) * VarY(c)],
          recent_change_pct |-> RecentChange(c[1].y, c[Len(c)].y),
          volatility  |-> Volatility(VarY(c), SumY(c)),
          period_days |-> Len(c),
          last_value  |-> c[Len(c)].y]

AnalyzeTrendOf(frame) ==
    IF Len(frame) = 0 \/ Len(frame) < 3 THEN Insufficient
    ELSE TrendOf(CleanXY(SortValues(frame, FALSE)))

AnalyzeTrend ==
    /\ trendRes' = AnalyzeTrendOf(data)
    /\ UNCHANGED <<data, outlierRes, corrIn, corrRes, corrMapVars, insightVars, mlVars, restVars>>

(***************************************************************************)
(* EconomicAnalyzer.detect_outliers                                        *)
(***************************************************************************)
RECURSIVE InsertInt(_, _)
InsertInt(sorted, v) ==
    IF sorted = <<>> THEN <<v>>
    ELSE IF v < sorted[1] THEN <<v>> \o sorted
         ELSE <<sorted[1]>> \o InsertInt(Tail(sorted), v)

RECURSIVE SortInts(_, _)
SortInts(s, k) == IF k = 0 THEN <<>> ELSE InsertInt(SortInts(s, k - 1), s[k])

\* data['value'].dropna(), in ascending order
ValidSorted(frame) ==
    SortInts(Pick([k \in 1..Len(frame) |-> frame[k].value],
                  {k \in 1..Len(frame) : frame[k].value # NaN}, 1),
             Cardinality({k \in 1..Len(frame) : frame[k].value # NaN}))

\* 4 * values.quantile(q / 4), by linear interpolation between the two
\* order statistics around position (n - 1) * q / 4.
Quantile4(sorted, q) ==
    LET h4 == (Len(sorted) - 1) * q
        lo == (h4 \div 4) + 1
    IN  IF h4 % 4 = 0 THEN 4 * sorted[lo]
        ELSE 4 * sorted[lo] + (h4 % 4) * (sorted[lo + 1] - sorted[lo])

\* 8 * (Q1 - 1.5 * IQR) and 8 * (Q3 + 1.5 * IQR)
LowerBound8(sorted) == 5 * Quantile4(sorted, 1) - 3 * Quantile4(sorted, 3)
UpperBound8(sorted) == 5 * Quantile4(sorted, 3) - 3 * Quantile4(sorted, 1)

\* 2 * values.median()
Median2(sorted) ==
    IF Len(sorted) % 2 = 1 THEN 2 * sorted[(Len(sorted) + 1) \div 2]
    ELSE sorted[Len(sorted) \div 2] + sorted[(Len(sorted) \div 2) + 1]

SumSq(s) == SumSeq([k \in 1..Len(s) |-> s[k] * s[k]])

\* abs(value - values.median()) / values.std(), kept as its square:
\* values.std() is the sample deviation, sqrt((n*sum(y^2) - sum(y)^2) / (n*(n-1))).
Deviation(value, sorted) ==
    [sq_num |-> (2 * value - Median2(sorted)) * (2 * value - Median2(sorted))
                * Len(sorted) * (Len(sorted) - 1),
     sq_den |-> 4 * (Len(sorted) * SumSq(sorted) - SumSeq(sorted) * SumSeq(sorted))]

\* A variant of IsOutlier: a value equal to a bound counts as outside.
IsOutlierClosed(value, sorted) ==
    /\ value # NaN
    /\ \/ 8 * value <= LowerBound8(sorted)
       \/ 8 * value >= UpperBound8(sorted)

\* pd.notna(value) and (value < lower_bound or value > upper_bound)
IsOutlier(value, sorted) ==
    /\ value # NaN
    /\ \/ 8 * value < LowerBound8(sorted)
       \/ 8 * value > UpperBound8(sorted)

Outlier(row, sorted) ==
    [date  |-> row.date,
     value |-> row.value,
     type  |-> IF 8 * row.value > UpperBound8(sorted) THEN "high" ELSE "low",
     deviation |-> Deviation(row.value, sorted)]

\* for idx, row in data.iterrows(): the outliers in the frame's row order
OutlierRows(frame, sorted) ==
    Pick([k \in 1..Len(frame) |->
             IF IsOutlier(frame[k].value, sorted) THEN Outlier(frame[k], sorted)
             ELSE [date |-> frame[k].date]],
         {k \in 1..Len(frame) : IsOutlier(frame[k].value, sorted)}, 1)

DetectOutliersOf(frame) ==
    IF Len(frame) = 0 THEN [kind |-> "list", rows |-> <<>>]
    ELSE IF Len(ValidSorted(frame)) < 4 THEN [kind |-> "list", rows |-> <<>>]
    ELSE [kind |-> "list", rows |-> OutlierRows(frame, ValidSorted(frame))]

DetectOutliers ==
    /\ outlierRes' = DetectOutliersOf(data)
    /\ UNCHANGED <<data, trendRes, corrIn, corrRes, corrMapVars, insightVars, mlVars, restVars>>

(***************************************************************************)
(* EconomicAnalyzer._classify_correlation                                  *)
(***************************************************************************)
\* A variant of ClassifyCorrelationOf: breakpoints open on the lower bound.
ClassifyCorrelationOpen(abs_corr) ==
    IF 10 * abs_corr.num > 8 * abs_corr.den THEN "very_strong"
    ELSE IF 10 * abs_corr.num > 6 * abs_corr.den THEN "strong"
    ELSE IF 10 * abs_corr.num > 4 * abs_corr.den THEN "moderate"
    ELSE "weak"

\* abs_corr is the quotient num/den; abs_corr >= 0.8 is 10 * num >= 8 * den.
ClassifyCorrelationOf(abs_corr) ==
    IF 10 * abs_corr.num >= 8 * abs_corr.den THEN "very_strong"
    ELSE IF 10 * abs_corr.num >= 6 * abs_corr.den THEN "strong"
    ELSE IF 10 * abs_corr.num >= 4 * abs_corr.den THEN "moderate"
    ELSE "weak"

\* The absolute values of correlation coefficients: the quotients in [0, 1].
AbsCorrelations ==
    UNION {{[kind |-> "float", num |-> n, den |-> d] : n \in 0..d} : d \in 1..MaxDen}

ClassifyCorrelation(abs_corr) ==
    /\ corrIn' = abs_corr
    /\ corrRes' = [kind |-> "str", value |-> ClassifyCorrelationOf(abs_corr)]
    /\ UNCHANGED <<data, trendRes, outlierRes, corrMapVars, insightVars, mlVars, restVars>>

(***************************************************************************)
(* EconomicAnalyzer.analyze_correlation                                    *)
(* A loaded series is the function from its timestamps (day numbers) to    *)
(* its values, as data.set_index('date')['value'] is.  A coefficient is    *)
(* kept as its sign and its square sq_num / sq_den.                        *)
(***************************************************************************)
CorrValues == {NaN, 0, 1, 3, 4}

\* what load_data yields for one indicator: None, or a frame (empty or not)
CorrSeries == UNION {[D -> CorrValues] : D \in SUBSET (1..MaxCorrLen)}

\* the argument lists of analyze_correlation
CorrLists == {<<"ipca", "selic", "pib">>, <<"pib", "selic">>}

RECURSIVE Ascending(_)
Ascending(S) ==
    IF S = {} THEN <<>>
    ELSE LET m == CHOOSE a \in S : \A b \in S : a <= b
         IN <<m>> \o Ascending(S \ {m})

\* data_dict: the indicators of the list whose load is a non-empty frame
DataDict(loads, indicators) ==
    [i \in {j \in Range(indicators) :
                loads[j].status = "ok" /\ DOMAIN loads[j].series # {}}
       |-> loads[i].series]

\* pd.DataFrame(data_dict): one row per timestamp of any series, in order
CombinedDf(data_dict) ==
    LET index == Ascending(UNION {DOMAIN data_dict[i] : i \in DOMAIN data_dict})
    IN [i \in DOMAIN data_dict |->
           [k \in 1..Len(index) |->
               IF index[k] \in DOMAIN data_dict[i] THEN data_dict[i][index[k]]
               ELSE NaN]]

\* fillna(method='ffill') on one column
Ffill(col) ==
    [k \in 1..Len(col) |->
        LET before == {j \in 1..k : col[j] # NaN}
        IN IF before = {} THEN NaN
           ELSE col[CHOOSE j \in before : \A h \in before : h <= j]]

\* fillna(method='bfill') on one column
Bfill(col) ==
    [k \in 1..Len(col) |->
        LET after == {j \in k..Len(col) : col[j] # NaN}
        IN IF after = {} THEN NaN
           ELSE col[CHOOSE j \in after : \A h \in after : j <= h]]

Filled(df) == [i \in DOMAIN df |-> Bfill(Ffill(df[i]))]

\* One cell of DataFrame.corr(): Pearson's coefficient over the rows where
\* both columns are valid, NaN when one of the deviations is zero.
PearsonOf(sxy, sxx, syy) ==
    IF sxx * syy = 0 THEN [kind |-> "nan"]
    ELSE [kind |-> "float", sign |-> Sign(sxy),
          sq_num |-> sxy * sxy, sq_den |-> sxx * syy]

CorrOn(x, y, n) ==
    PearsonOf(n * SumSeq([k \in 1..Len(x) |-> IF x[k] # NaN /\ y[k] # NaN THEN x[k] * y[k] ELSE 0])
                - SumSeq([k \in 1..Len(x) |-> IF x[k] # NaN /\ y[k] # NaN THEN x[k] ELSE 0])
                  * SumSeq([k \in 1..Len(x) |-> IF x[k] # NaN /\ y[k] # NaN THEN y[k] ELSE 0]),
              n * SumSeq([k \in 1..Len(x) |-> IF x[k] # NaN /\ y[k] # NaN THEN x[k] * x[k] ELSE 0])
                - SumSeq([k \in 1..Len(x) |-> IF x[k] # NaN /\ y[k] # NaN THEN x[k] ELSE 0])
                  * SumSeq([k \in 1..Len(x) |-> IF x[k] # NaN /\ y[k] # NaN THEN x[k] ELSE 0]),
              n * SumSeq([k \in 1..Len(x) |-> IF x[k] # NaN /\ y[k] # NaN THEN y[k] * y[k] ELSE 0])
                - SumSeq([k \in 1..Len(x) |-> IF x[k] # NaN /\ y[k] # NaN THEN y[k] ELSE 0])
                  * SumSeq([k \in 1..Len(x) |-> IF x[k] # NaN /\ y[k] # NaN THEN y[k] ELSE 0]))

Corr(x, y) == CorrOn(x, y, Cardinality({k \in 1..Len(x) : x[k] # NaN /\ y[k] # NaN}))

\* combined_df.corr()
CorrelationMatrix(df) == [i \in DOMAIN df |-> [j \in DOMAIN df |-> Corr(df[i], df[j])]]

\* abs(corr_value) >= 0.3
SignificantClosed(corr_value) ==
    corr_value.kind = "float" /\ 100 * corr_value.sq_num >= 9 * corr_value.sq_den

\* abs(corr_value) > 0.3, false of NaN
Significant(corr_value) ==
    corr_value.kind = "float" /\ 100 * corr_value.sq_num > 9 * corr_value.sq_den

\* _classify_correlation(abs(corr_value)): |c| >= 0.8 is c * c >= 0.64
ClassifyAbs(corr_value) ==
    IF 100 * corr_value.sq_num >= 64 * corr_value.sq_den THEN "very_strong"
    ELSE IF 100 * corr_value.sq_num >= 36 * corr_value.sq_den THEN "strong"
    ELSE IF 100 * corr_value.sq_num >= 16 * corr_value.sq_den THEN "moderate"
    ELSE "weak"

PairKey(ind1, ind2) == ind1 \o "_" \o ind2

CorrelationEntry(corr_value) ==
    [correlation |-> corr_value,
     strength    |-> ClassifyAbs(corr_value),
     direction   |-> IF corr_value.sign > 0 THEN "positive" ELSE "negative"]

\* the pairs (i, j) of list positions that get an entry
SignificantPairs(indicators, matrix) ==
    {p \in (1..Len(indicators)) \X (1..Len(indicators)) :
        /\ p[1] < p[2]
        /\ indicators[p[1]] \in DOMAIN matrix
        /\ indicators[p[2]] \in DOMAIN matrix
        /\ Significant(matrix[indicators[p[1]]][indicators[p[2]]])}

Correlations(indicators, matrix, pairs) ==
    [key \in {PairKey(indicators[p[1]], indicators[p[2]]) : p \in pairs} |->
        LET p == CHOOSE q \in pairs : PairKey(indicators[q[1]], indicators[q[2]]) = key
        IN CorrelationEntry(matrix[indicators[p[1]]][indicators[p[2]]])]

AnalyzeCorrelationOf(loads, indicators) ==
    IF Cardinality(DOMAIN DataDict(loads, indicators)) < 2 THEN <<>>
    ELSE LET matrix == CorrelationMatrix(Filled(CombinedDf(DataDict(loads, indicators))))
         IN Correlations(indicators, matrix, SignificantPairs(indicators, matrix))

AnalyzeCorrelation(indicators) ==
    /\ corrMap' = [kind |-> "dict", indicators |-> indicators,
                   value |-> AnalyzeCorrelationOf(corrLoads, indicators)]
    /\ UNCHANGED <<corrLoads, data, trendRes, outlierRes, corrIn, corrRes,
                   insightVars, mlVars, restVars>>

(***************************************************************************)
(* EconomicAnalyzer.generate_insights                                      *)
(* A statement is kept as the rule that made it, its wording, and what it  *)
(* quotes of the outliers.                                                 *)
(***************************************************************************)
\* A variant of Confident: a confidence of exactly 0.5 counts.
ConfidentClosed(trend_analysis) ==
    /\ trend_analysis.confidence.den # 0
    /\ 2 * trend_analysis.confidence.num >= trend_analysis.confidence.den

\* trend_analysis["confidence"] > 0.5, false of NaN
Confident(trend_analysis) ==
    /\ trend_analysis.confidence.den # 0
    /\ 2 * trend_analysis.confidence.num > trend_analysis.confidence.den

TrendInsight(trend_analysis) ==
    IF Confident(trend_analysis)
    THEN IF trend_analysis.trend = "ascending"
         THEN <<[rule |-> "trend", wording |-> "alta"]>>
         ELSE IF trend_analysis.trend = "descending"
         THEN <<[rule |-> "trend", wording |-> "queda"]>>
         ELSE <<[rule |-> "trend", wording |-> "estavel"]>>
    ELSE <<>>

\* trend_analysis.get("volatility", 0)
VolatilityGet(trend_analysis) ==
    IF "volatility" \in DOMAIN trend_analysis THEN trend_analysis.volatility
    ELSE [sign |-> 0, sq_num |-> 0, sq_den |-> 1]

\* A variant of VolatilityInsight: 10 counts as high and 2 as low.
VolatilityInsightClosed(volatility) ==
    IF volatility.sign > 0 /\ volatility.sq_num >= 100 * volatility.sq_den
    THEN <<[rule |-> "volatility", wording |-> "alta"]>>
    ELSE IF volatility.sign <= 0 \/ volatility.sq_num <= 4 * volatility.sq_den
    THEN <<[rule |-> "volatility", wording |-> "baixa"]>>
    ELSE <<>>

\* volatility > 10 / elif volatility < 2
VolatilityInsight(volatility) ==
    IF volatility.sign > 0 /\ volatility.sq_num > 100 * volatility.sq_den
    THEN <<[rule |-> "volatility", wording |-> "alta"]>>
    ELSE IF volatility.sign <= 0 \/ volatility.sq_num < 4 * volatility.sq_den
    THEN <<[rule |-> "volatility", wording |-> "baixa"]>>
    ELSE <<>>

\* max(outliers, key=lambda x: x['date']): the first of the list among those
\* of the greatest date
LastOutlier(outliers) ==
    outliers[CHOOSE k \in 1..Len(outliers) :
                /\ \A j \in 1..Len(outliers) : ~DateLess(outliers[k].date, outliers[j].date)
                /\ \A j \in 1..(k - 1) : DateLess(outliers[j].date, outliers[k].date)]

\* if outliers: if len(outliers) > len(data) * 0.1: ... else: ...
OutlierInsight(outliers, rows) ==
    IF Len(outliers) = 0 THEN <<>>
    ELSE IF 10 * Len(outliers) > rows
    THEN <<[rule |-> "outlier", wording |-> "detectados", count |-> Len(outliers)]>>
    ELSE <<[rule |-> "outlier", wording |-> "ultimo",
            date  |-> LastOutlier(outliers).date,
            value |-> LastOutlier(outliers).value,
            type  |-> LastOutlier(outliers).type]>>

Specific(wording) == <<[rule |-> "specific", wording |-> wording]>>

\* A variant of InflationInsight: the targets 3 and 6 count as outside.
InflationInsightClosed(last_value) ==
    IF last_value >= 6 THEN Specific("acima da meta")
    ELSE IF last_value <= 3 THEN Specific("abaixo da meta")
    ELSE Specific("dentro da meta")

\* if last_value > 6 / elif last_value < 3 / else
InflationInsight(last_value) ==
    IF last_value > 6 THEN Specific("acima da meta")
    ELSE IF last_value < 3 THEN Specific("abaixo da meta")
    ELSE Specific("dentro da meta")

\* _get_indicator_specific_insights; last_value is None when the trend
\* analysis has no such key
SpecificInsights(indicator, trend_analysis) ==
    IF indicator = "ipca" THEN
        IF "last_value" \in DOMAIN trend_analysis
        THEN InflationInsight(trend_analysis.last_value)
        ELSE <<>>
    ELSE IF indicator = "selic" THEN
        IF "last_value" \in DOMAIN trend_analysis
        THEN IF trend_analysis.trend = "ascending" THEN Specific("elevacao da Selic")
             ELSE IF trend_analysis.trend = "descending" THEN Specific("reducao da Selic")
             ELSE <<>>
        ELSE <<>>
    ELSE IF indicator = "pib" THEN
        IF trend_analysis.trend = "ascending" THEN Specific("crescimento do PIB")
        ELSE IF trend_analysis.trend = "descending" THEN Specific("contracao do PIB")
        ELSE <<>>
    ELSE IF indicator = "cambio_usd" THEN
        IF "last_value" \in DOMAIN trend_analysis
        THEN IF Abs(trend_analysis.recent_change_pct.num)
                   > 10 * trend_analysis.recent_change_pct.den
             THEN IF trend_analysis.recent_change_pct.num > 0
                  THEN Specific("desvalorizacao do real")
                  ELSE Specific("valorizacao do real")
             ELSE <<>>
        ELSE <<>>
    ELSE IF indicator = "divida_pib" THEN
        IF "last_value" \in DOMAIN trend_analysis
        THEN IF trend_analysis.last_value > 80 THEN Specific("divida elevada")
             ELSE IF trend_analysis.trend = "ascending" THEN Specific("crescimento da divida")
             ELSE <<>>
        ELSE <<>>
    ELSE <<>>

\* A variant of NewList: the list of the previous call is kept.
KeptList(previous) == IF previous = None THEN <<>> ELSE previous.value

\* insights = []
NewList(previous) == <<>>

\* insights[:cap]
Truncate(list, cap) == SubSeq(list, 1, Min(cap, Len(list)))

\* A variant of Statements: the outlier statement before the others.
StatementsOutlierFirst(insights, indicator, trend_analysis, outliers, rows) ==
    insights \o OutlierInsight(outliers, rows)
             \o TrendInsight(trend_analysis)
             \o VolatilityInsight(VolatilityGet(trend_analysis))
             \o SpecificInsights(indicator, trend_analysis)

\* the appends and the extend, in the order of the code
Statements(insights, indicator, trend_analysis, outliers, rows) ==
    insights \o TrendInsight(trend_analysis)
             \o VolatilityInsight(VolatilityGet(trend_analysis))
             \o OutlierInsight(outliers, rows)
             \o SpecificInsights(indicator, trend_analysis)

GenerateInsightsOf(previous, indicator, rows, trend_analysis, outliers, cap) ==
    IF rows = 0 THEN <<[rule |-> "empty", wording |-> "dados insuficientes"]>>
    ELSE Truncate(Statements(NewList(previous), indicator, trend_analysis,
                             outliers.rows, rows),
                  cap)

\* One call of generate_insights under the configured cap; on a non-empty
\* frame it calls analyze_trend and detect_outliers.  The history
\* firstInsights keeps the first call, what it returned, and whether a call
\* on other inputs has been made since.
GenerateInsights(indicator, frame, cap) ==
    /\ insightIndicator' = indicator
    /\ data' = frame
    /\ trendRes' = IF Len(frame) = 0 THEN trendRes ELSE AnalyzeTrendOf(frame)
    /\ outlierRes' = IF Len(frame) = 0 THEN outlierRes ELSE DetectOutliersOf(frame)
    /\ insightRes' = [kind |-> "list", cap |-> cap,
                      value |-> GenerateInsightsOf(insightRes, indicator, Len(frame),
                                                   trendRes', outlierRes', cap)]
    /\ firstInsights' =
          IF firstInsights = None
          THEN [indicator |-> indicator, data |-> frame, cap |-> cap,
                value |-> insightRes'.value, interleaved |-> FALSE]
          ELSE [firstInsights EXCEPT !.interleaved =
                   @ \/ indicator # firstInsights.indicator \/ frame # firstInsights.data]
    /\ UNCHANGED <<corrIn, corrRes, corrMapVars, mlVars, restVars>>

\* No collection, no report and no session yet.
RestIdle ==
    /\ stats = None
    /\ calls = None
    /\ requestLog = None
    /\ results = None
    /\ report = None
    /\ examined = None
    /\ session = None
    /\ logged = None

PrepareIdle ==
    /\ normalized = None
    /\ prepRes = None

CorrelationMapIdle ==
    /\ corrLoads = None
    /\ corrMap = None

InsightsIdle ==
    /\ insightIndicator = None
    /\ insightRes = None
    /\ firstInsights = None

AnalyzerIdle ==
    /\ data = <<>>
    /\ trendRes = None
    /\ outlierRes = None
    /\ corrIn = None
    /\ corrRes = None
    /\ CorrelationMapIdle
    /\ InsightsIdle

Init ==
    /\ db \in [Indicators -> LoadOutcomes]
    /\ files = [p \in AllPaths |-> NoFile]
    /\ lastOp = [op |-> "init", raised |-> FALSE, result |-> None]
    /\ everTrained = {}
    /\ preFiles = files
    /\ PrepareIdle
    /\ RestIdle
    /\ AnalyzerIdle

Next ==
    \/ \E i \in Indicators, t \in ModelTypes, ts \in TestSizes, rev \in BOOLEAN,
          theta \in 0..MaxTheta, io \in {"ok", "open", "partial"} :
          TrainModel(i, t, ts, rev, theta, io)
    \/ \E i \in Indicators, steps \in 0..MaxSteps, rev \in BOOLEAN :
          PredictFuture(i, steps, rev)
    \/ \E i \in Indicators : GetFeatureImportance(i)
    \/ \E i \in Indicators, t \in ModelTypes : ShowModelStatus(i, t)
    \/ \E i \in Indicators, load \in LoadOutcomes : StoreUpdate(i, load)

Spec == Init /\ [][Next]_vars

(***************************************************************************)
(* Claims about the predictor, checked under Spec.                         *)
(***************************************************************************)
IsPredict == lastOp.op = "predict_future"
IsForecast == IsPredict /\ lastOp.result.kind = "forecast"
TrainSucceeded == lastOp.op = "train_model" /\ lastOp.result.kind = "metrics"

\* C1: predict_future(i, steps) yields a forecast only if some earlier
\* train_model(i) succeeded; when no artifact for i exists, predict_future
\* and get_feature_importance return None, raise nothing and leave the
\* model directory as it was.
C1_ForecastOnlyAfterTraining ==
    /\ IsForecast => lastOp.indicator \in everTrained
    /\ (/\ lastOp.op \in {"predict_future", "get_feature_importance"}
        /\ ~Exists(preFiles, ArtifactPath(lastOp.indicator)))
       => (/\ lastOp.result = None
           /\ ~lastOp.raised
           /\ files = preFiles)

\* predict_future finds no artifact for its indicator while another
\* indicator has been trained.
C1_Witness ==
    /\ IsPredict
    /\ ~Exists(preFiles, ArtifactPath(lastOp.indicator))
    /\ lastOp.result = None
    /\ everTrained # {}

\* C2: when train_model(indicator) returns a result other than None, the
\* metrics it returns have the keys r2, rmse and mae, and the file
\* <model_dir>/<indicator>_random_forest_model.pkl holds the model, the
\* scaler, the feature schema, the indicator and the same metrics.
C2_TrainSuccessPersists ==
    TrainSucceeded =>
        LET artifact == files[[dir  |-> ModelDir,
                               name |-> lastOp.indicator
                                        \o <<"random", "forest", "model.pkl">>]]
        IN  /\ {"r2", "rmse", "mae"} \subseteq DOMAIN lastOp.result.metrics
            /\ artifact.kind = "artifact"
            /\ {"model", "scaler", "feature_columns", "target_indicator", "metrics"}
                   \subseteq DOMAIN artifact
            /\ artifact.target_indicator = lastOp.indicator
            /\ artifact.metrics = lastOp.result.metrics

\* train_model has returned metrics where an older artifact was replaced.
C2_Witness ==
    /\ TrainSucceeded
    /\ Exists(preFiles, ArtifactPath(lastOp.indicator))
    /\ files # preFiles

\* C3: the artifact's path is derived from the indicator and the model
\* kind: after train_model(indicator, model_type) succeeds, the lookup
\* <indicator>_<model_type>_model.pkl finds what was written, and the files
\* of the indicator's other model kinds are the ones that were there before.
C3_PathFromIndicatorAndKind ==
    TrainSucceeded =>
        /\ files[StatusPath(lastOp.indicator, lastOp.model_type)].kind = "artifact"
        /\ files[StatusPath(lastOp.indicator, lastOp.model_type)].metrics
               = lastOp.result.metrics
        /\ \A t \in ModelTypes \ {lastOp.model_type} :
               files[StatusPath(lastOp.indicator, t)]
                   = preFiles[StatusPath(lastOp.indicator, t)]

\* The stored rows with a value, and the latest timestamp among them.
Observed(frame) == {k \in 1..Len(frame) : frame[k].value # NaN}
LastObserved(frame) ==
    frame[CHOOSE k \in Observed(frame) : \A j \in Observed(frame) : j <= k].date

\* The stored rows that have a value and WindowSize predecessors with one,
\* and the latest timestamp among them.
Complete(frame) ==
    {k \in (WindowSize + 1)..Len(frame) :
        \A j \in (k - WindowSize)..k : frame[j].value # NaN}
LastComplete(frame) ==
    frame[CHOOSE k \in Complete(frame) : \A j \in Complete(frame) : j <= k].date

C5_NoFeedback ==
    IsForecast =>
        /\ lastOp.result.base_features
               = Prepared(db[lastOp.indicator], FALSE).X[
                     Len(Prepared(db[lastOp.indicator], FALSE).X)]
        /\ \A k \in 1..Len(lastOp.result.inputs) :
              /\ lastOp.result.inputs[k] = lastOp.result.base_features
              /\ lastOp.result.rows[k].value = lastOp.result.rows[1].value

\* A forecast of two or more steps.
C5_Witness ==
    /\ IsForecast
    /\ lastOp.steps >= 2
    /\ Len(lastOp.result.inputs) = lastOp.steps

(***************************************************************************)
(* The analyzer on one DataFrame: analyze_trend and detect_outliers are    *)
(* pure functions of it.                                                   *)
(***************************************************************************)
PredictorIdle ==
    /\ db = [i \in Indicators |-> NoSeries]
    /\ files = [p \in AllPaths |-> NoFile]
    /\ lastOp = [op |-> "init", raised |-> FALSE, result |-> None]
    /\ everTrained = {}
    /\ preFiles = files
    /\ PrepareIdle

InitAnalyzer ==
    /\ data \in AnalyzerFrames
    /\ trendRes = None
    /\ outlierRes = None
    /\ corrIn = None
    /\ corrRes = None
    /\ CorrelationMapIdle
    /\ InsightsIdle
    /\ PredictorIdle
    /\ RestIdle

NextAnalyzer ==
    \/ AnalyzeTrend
    \/ DetectOutliers

SpecAnalyzer == InitAnalyzer /\ [][NextAnalyzer]_vars

(***************************************************************************)
(* Claims about the analyzer, checked under SpecAnalyzer.                  *)
(***************************************************************************)
\* The number of rows of a frame whose value is not NaN.
ValidCount(frame) == Cardinality({k \in 1..Len(frame) : frame[k].value # NaN})

\* The valid points of a frame, in date order.
Points(frame) == CleanXY(SortValues(frame, FALSE))

TrendReturned == trendRes.kind = "dict"
Classified == TrendReturned /\ trendRes.trend # "insufficient_data"

\* C6: analyze_trend returns insufficient_data, with confidence 0, if and
\* only if fewer than 3 values of the series are valid (not NaN).
C6_InsufficientIffFewerThanThree ==
    TrendReturned =>
        /\ (trendRes.trend = "insufficient_data") <=> (ValidCount(data) < 3)
        /\ (trendRes.trend = "insufficient_data") =>
               trendRes.confidence = [num |-> 0, den |-> 1]

\* C7: the volatility analyze_trend returns is never negative, and is 0
\* when the mean of the values is 0.
C7_VolatilityNonNegative ==
    Classified =>
        /\ trendRes.volatility.sign >= 0
        /\ (SumY(Points(data)) = 0) =>
               (trendRes.volatility.sign = 0 /\ trendRes.volatility.sq_num = 0)

\* C8 as stated: the direction is stable when |slope| is below 1% of the
\* sample standard deviation of the values, otherwise ascending when the
\* slope is positive, otherwise descending.
C8_DirectionBySampleDeviation ==
    Classified =>
        trendRes.trend =
            IF BelowThresholdSample(CovXY(Points(data)), VarX(Points(data)),
                                    VarY(Points(data)), Len(Points(data)))
            THEN "stable"
            ELSE IF trendRes.slope.num > 0 THEN "ascending" ELSE "descending"

\* C8, amended: the direction is stable when |slope| is below 1% of the
\* population standard deviation sqrt(VarY) / n of the valid values (np.std),
\* otherwise ascending when the slope is positive, otherwise descending;
\* exactly one of the three is returned.
C8_DirectionByDeviation ==
    Classified =>
        LET c     == Points(data)
            slope == trendRes.slope
            below == SqLess(100 * Len(c) * Abs(slope.num),
                            VarY(c) * slope.den * slope.den)
        IN  /\ slope.den > 0
            /\ trendRes.trend \in {"stable", "ascending", "descending"}
            /\ (trendRes.trend = "stable") <=> below
            /\ (trendRes.trend = "ascending") <=> (~below /\ slope.num > 0)
            /\ (trendRes.trend = "descending") <=> (~below /\ slope.num <= 0)

\* A series called ascending whose |slope| lies between 1% of the
\* population and 1% of the sample standard deviation.
C8_Witness ==
    /\ Classified
    /\ trendRes.trend = "ascending"
    /\ BelowThresholdSample(CovXY(Points(data)), VarX(Points(data)),
                            VarY(Points(data)), Len(Points(data)))

\* The rows of a frame whose value lies strictly outside the fences
\* [Q1 - 1.5 * IQR, Q3 + 1.5 * IQR] of its valid values.
Outside(frame) ==
    {k \in 1..Len(frame) :
        /\ frame[k].value # NaN
        /\ \/ 8 * frame[k].value < LowerBound8(ValidSorted(frame))
           \/ 8 * frame[k].value > UpperBound8(ValidSorted(frame))}

\* C9: detect_outliers returns the empty list when fewer than 4 values are
\* valid; otherwise it returns exactly the rows whose value lies strictly
\* outside the fences, each tagged high above the upper fence and low below
\* the lower one.
C9_OutliersOutsideFences ==
    outlierRes.kind = "list" =>
        IF ValidCount(data) < 4 THEN outlierRes.rows = <<>>
        ELSE /\ Len(outlierRes.rows) = Cardinality(Outside(data))
             /\ \A k \in Outside(data) :
                   \E j \in 1..Len(outlierRes.rows) :
                      /\ outlierRes.rows[j].date = data[k].date
                      /\ outlierRes.rows[j].value = data[k].value
                      /\ outlierRes.rows[j].type =
                            IF 8 * data[k].value > UpperBound8(ValidSorted(data))
                            THEN "high" ELSE "low"

\* Four or more valid values between two distinct fences, one of them equal
\* to the upper fence: it is not reported.
C9_Witness ==
    /\ outlierRes.kind = "list"
    /\ ValidCount(data) >= 4
    /\ LowerBound8(ValidSorted(data)) < UpperBound8(ValidSorted(data))
    /\ \E k \in 1..Len(data) :
          /\ data[k].value # NaN
          /\ 8 * data[k].value = UpperBound8(ValidSorted(data))
          /\ \A j \in 1..Len(outlierRes.rows) : outlierRes.rows[j].date # data[k].date

InitCorrelation ==
    /\ AnalyzerIdle
    /\ PredictorIdle
    /\ RestIdle

NextCorrelation == \E c \in AbsCorrelations : ClassifyCorrelation(c)

SpecCorrelation == InitCorrelation /\ [][NextCorrelation]_vars

(***************************************************************************)
(* Claim about _classify_correlation, checked under SpecCorrelation.       *)
(***************************************************************************)
\* C10: the breakpoints are closed on the lower bound: |c| >= 0.8 is
\* very_strong, 0.6 <= |c| < 0.8 strong, 0.4 <= |c| < 0.6 moderate, anything
\* lower weak.
C10_ClosedBreakpoints ==
    corrRes.kind = "str" =>
        /\ (corrRes.value = "very_strong") <=> (10 * corrIn.num >= 8 * corrIn.den)
        /\ (corrRes.value = "strong") <=>
               (10 * corrIn.num >= 6 * corrIn.den /\ 10 * corrIn.num < 8 * corrIn.den)
        /\ (corrRes.value = "moderate") <=>
               (10 * corrIn.num >= 4 * corrIn.den /\ 10 * corrIn.num < 6 * corrIn.den)
        /\ (corrRes.value = "weak") <=> (10 * corrIn.num < 4 * corrIn.den)

\* A coefficient of exactly 0.8 was classified.
C10_Witness ==
    /\ corrRes.kind = "str"
    /\ 10 * corrIn.num = 8 * corrIn.den
    /\ corrRes.value = "very_strong"

(***************************************************************************)
(* analyze_correlation over a store of three series: the first is the     *)
(* ramp 0, 1, 3, 4, the second is any series over the grid (the empty      *)
(* frame included), the third is absent or 1, 4, 3, 0.                     *)
(***************************************************************************)
CorrStores ==
    {[i \in {"ipca", "selic", "pib"} |->
         IF i = "ipca" THEN a ELSE IF i = "selic" THEN b ELSE c] :
       a \in {[status |-> "ok", series |-> <<0, 1, 3, 4>>]},
       b \in {[status |-> "ok", series |-> f] : f \in CorrSeries},
       c \in {[status |-> "none", series |-> <<>>],
               [status |-> "ok", series |-> <<1, 4, 3, 0>>]}}

InitCorrelationMap ==
    /\ data = <<>>
    /\ trendRes = None
    /\ outlierRes = None
    /\ corrIn = None
    /\ corrRes = None
    /\ corrLoads \in CorrStores
    /\ corrMap = None
    /\ InsightsIdle
    /\ PredictorIdle
    /\ RestIdle

NextCorrelationMap == \E indicators \in CorrLists : AnalyzeCorrelation(indicators)

SpecCorrelationMap == InitCorrelationMap /\ [][NextCorrelationMap]_vars

(***************************************************************************)
(* Claim about analyze_correlation, checked under SpecCorrelationMap.      *)
(***************************************************************************)
\* the indicators of the list whose series was loaded and is not empty
Loaded(indicators) ==
    {i \in Range(indicators) :
        corrLoads[i].status = "ok" /\ DOMAIN corrLoads[i].series # {}}

\* the coefficient of two loaded series over the filled common grid
Coefficient(ind1, ind2) ==
    Corr(Filled(CombinedDf([i \in Loaded(corrMap.indicators) |-> corrLoads[i].series]))[ind1],
         Filled(CombinedDf([i \in Loaded(corrMap.indicators) |-> corrLoads[i].series]))[ind2])

AboveCutoff(c) == c.kind = "float" /\ 100 * c.sq_num > 9 * c.sq_den

\* C11: every entry of the map returned by analyze_correlation has a
\* coefficient of absolute value strictly above 0.3, every pair of loaded
\* series whose coefficient is strictly above 0.3 in absolute value has an
\* entry, an entry is positive when its coefficient is above zero and
\* negative when it is below zero, and fewer than two non-empty series give
\* the empty map.
C11_EdgesAboveCutoff ==
    corrMap # None =>
        /\ Cardinality(Loaded(corrMap.indicators)) < 2 => DOMAIN corrMap.value = {}
        /\ \A key \in DOMAIN corrMap.value :
              /\ AboveCutoff(corrMap.value[key].correlation)
              /\ corrMap.value[key].direction = "positive"
                    <=> corrMap.value[key].correlation.sign = 1
              /\ corrMap.value[key].direction = "negative"
                    <=> corrMap.value[key].correlation.sign = -1
              /\ \E i, j \in 1..Len(corrMap.indicators) :
                    /\ i < j
                    /\ key = PairKey(corrMap.indicators[i], corrMap.indicators[j])
                    /\ {corrMap.indicators[i], corrMap.indicators[j]}
                          \subseteq Loaded(corrMap.indicators)
                    /\ corrMap.value[key].correlation
                          = Coefficient(corrMap.indicators[i], corrMap.indicators[j])
        /\ Cardinality(Loaded(corrMap.indicators)) >= 2 =>
              \A i, j \in 1..Len(corrMap.indicators) :
                 (/\ i < j
                  /\ {corrMap.indicators[i], corrMap.indicators[j]}
                        \subseteq Loaded(corrMap.indicators)
                  /\ AboveCutoff(Coefficient(corrMap.indicators[i], corrMap.indicators[j])))
                 => PairKey(corrMap.indicators[i], corrMap.indicators[j])
                       \in DOMAIN corrMap.value

\* a call over three loaded series: one pair correlates at exactly 0.3 and
\* has no entry, another pair at exactly -0.3 has none either, and the third
\* pair has a positive entry
C11_Witness ==
    /\ corrMap # None
    /\ corrMap.indicators = <<"ipca", "selic", "pib">>
    /\ Loaded(corrMap.indicators) = {"ipca", "selic", "pib"}
    /\ Coefficient("ipca", "selic").kind = "float"
    /\ Coefficient("ipca", "selic").sign = 1
    /\ 100 * Coefficient("ipca", "selic").sq_num = 9 * Coefficient("ipca", "selic").sq_den
    /\ "ipca_selic" \notin DOMAIN corrMap.value
    /\ Coefficient("ipca", "pib").sign = -1
    /\ 100 * Coefficient("ipca", "pib").sq_num = 9 * Coefficient("ipca", "pib").sq_den
    /\ "ipca_pib" \notin DOMAIN corrMap.value
    /\ "selic_pib" \in DOMAIN corrMap.value
    /\ corrMap.value["selic_pib"].direction = "positive"


(***************************************************************************)
(* generate_insights.  The frames: weekly series of up to MaxLen rows over *)
(* four value profiles (around the inflation targets 3 and 6, around a     *)
(* volatility of 10% and of 2%, around a debt ratio of 80), two series of  *)
(* confidence exactly 0.5, series of three rows 100 days apart (the only   *)
(* ones slow enough to be stable), and daily series of 10 and 20 rows,     *)
(* constant but for the first                                              *)
(* and the last row, in both row orders.                                   *)
(***************************************************************************)
DailyFrame(values) ==
    [k \in 1..Len(values) |-> [date |-> [y |-> BaseYear, m |-> 1, d |-> k],
                               value |-> values[k]]]

\* rows 100 days apart: January 15, April 24, August 2
SparseFrame(values) ==
    [k \in 1..Len(values) |->
        [date |-> IF k = 1 THEN [y |-> BaseYear, m |-> 1, d |-> 15]
                  ELSE IF k = 2 THEN [y |-> BaseYear, m |-> 4, d |-> 24]
                  ELSE [y |-> BaseYear, m |-> 8, d |-> 2],
         value |-> values[k]]]

InsightProfiles == {{NaN, 2, 3, 6, 7}, {NaN, 9, 11}, {NaN, 49, 51}, {NaN, 80, 81}}

LongFrames ==
    UNION {{DailyFrame([k \in 1..n |-> IF k = 1 THEN a ELSE IF k = n THEN b ELSE 9]),
            Reverse(DailyFrame([k \in 1..n |-> IF k = 1 THEN a ELSE IF k = n THEN b ELSE 9]))} :
              n \in {10, 20}, a \in {NaN, 2, 9, 11}, b \in {NaN, 2, 9, 11}}

InsightFrames ==
    {WeeklyFrame(v) : v \in UNION {[1..n -> p] : n \in 0..MaxLen, p \in InsightProfiles}}
    \cup {WeeklyFrame(<<2, 5, 3, 6>>), WeeklyFrame(<<6, 3, 5, 2>>)}
    \cup {SparseFrame(v) : v \in [1..3 -> {2, 9, 11}]}
    \cup LongFrames

InsightIndicators == {"ipca", "selic", "pib", "cambio_usd", "divida_pib", "igpm"}

\* the cap of the configuration: its default, and a smaller one that cuts
InsightCaps == {2, MaxInsights}

\* After the first call, the calls repeat it or are the call on another series.
InsightCalls ==
    IF firstInsights = None
    THEN [indicator : InsightIndicators, data : InsightFrames, cap : InsightCaps]
    ELSE {[indicator |-> firstInsights.indicator, data |-> firstInsights.data,
           cap |-> firstInsights.cap],
          [indicator |-> "selic", data |-> WeeklyFrame(<<2, 3, 7>>), cap |-> MaxInsights]}

InitInsights ==
    /\ data = <<>>
    /\ trendRes = None
    /\ outlierRes = None
    /\ corrIn = None
    /\ corrRes = None
    /\ CorrelationMapIdle
    /\ InsightsIdle
    /\ PredictorIdle
    /\ RestIdle

NextInsights == \E call \in InsightCalls : GenerateInsights(call.indicator, call.data, call.cap)

SpecInsights == InitInsights /\ [][NextInsights]_vars

(***************************************************************************)
(* Claims about generate_insights, checked under SpecInsights.             *)
(***************************************************************************)
Returned == insightRes # None /\ Len(data) > 0

RuleRank(rule) ==
    CASE rule = "trend" -> 1
      [] rule = "volatility" -> 2
      [] rule = "outlier" -> 3
      [] rule = "specific" -> 4
      [] OTHER -> 0

\* what the four rules say of the series of the last call, rule by rule,
\* given what analyze_trend and detect_outliers returned for it
TrendSaid == TrendInsight(trendRes)
VolatilitySaid == VolatilityInsight(VolatilityGet(trendRes))
OutlierSaid == OutlierInsight(outlierRes.rows, Len(data))
SpecificSaid == SpecificInsights(insightIndicator, trendRes)
AllSaid == TrendSaid \o VolatilitySaid \o OutlierSaid \o SpecificSaid

\* C12: on non-empty data generate_insights returns the statements of the
\* trend rule, the volatility rule, the outlier rule and the
\* indicator-specific rule, in that order, at most one per rule, cut to the
\* first max_insights_per_indicator of them: the order never differs and the
\* length never exceeds the cap.
C12_FixedOrderAndCap ==
    Returned =>
        /\ Len(insightRes.value) <= insightRes.cap
        /\ \A k \in 1..Len(insightRes.value) : RuleRank(insightRes.value[k].rule) >= 1
        /\ \A j, k \in 1..Len(insightRes.value) :
              j < k => RuleRank(insightRes.value[j].rule) < RuleRank(insightRes.value[k].rule)
        /\ Len(insightRes.value) = Min(insightRes.cap, Len(AllSaid))
        /\ \A k \in 1..Len(insightRes.value) : insightRes.value[k] = AllSaid[k]

\* the four rules all speak and the cap of 2 cuts the list to the first two
C12_Witness ==
    /\ Returned
    /\ insightRes.cap = 2
    /\ Len(AllSaid) = 4
    /\ Len(insightRes.value) = 2
    /\ insightRes.value[1].rule = "trend"
    /\ insightRes.value[2].rule = "volatility"

Says(rule, wording) ==
    \E k \in 1..Len(insightRes.value) :
        insightRes.value[k].rule = rule /\ insightRes.value[k].wording = wording

SaysRule(rule) == \E k \in 1..Len(insightRes.value) : insightRes.value[k].rule = rule

\* C13: generate_insights makes a trend statement if and only if the
\* confidence of the trend is strictly above 0.5 (none at exactly 0.5); the
\* wording is the rising one for an ascending trend, the falling one for a
\* descending trend and the stable one for any other direction.
C13_TrendIffConfident ==
    Returned =>
        /\ SaysRule("trend")
              <=> /\ trendRes.confidence.den # 0
                  /\ 2 * trendRes.confidence.num
                        > trendRes.confidence.den
        /\ Says("trend", "alta") => trendRes.trend = "ascending"
        /\ Says("trend", "queda") => trendRes.trend = "descending"
        /\ Says("trend", "estavel")
              => trendRes.trend \notin {"ascending", "descending"}

\* a series whose confidence is exactly 0.5: no trend statement
C13_Witness ==
    /\ Returned
    /\ trendRes.confidence.den # 0
    /\ 2 * trendRes.confidence.num = trendRes.confidence.den
    /\ ~SaysRule("trend")
    /\ Len(insightRes.value) > 0

\* the volatility generate_insights reads: that of the trend analysis, 0
\* when the analysis has none
VolatilityRead ==
    IF "volatility" \in DOMAIN trendRes THEN trendRes.volatility
    ELSE [sign |-> 0, sq_num |-> 0, sq_den |-> 1]

\* C14: generate_insights makes the high-volatility statement iff the
\* volatility is above 10, the low-volatility statement iff it is below 2,
\* and no volatility statement when it lies in the closed range [2, 10].
C14_VolatilityBands ==
    Returned =>
        /\ Says("volatility", "alta")
              <=> VolatilityRead.sign > 0
                  /\ VolatilityRead.sq_num > 100 * VolatilityRead.sq_den
        /\ Says("volatility", "baixa")
              <=> \/ VolatilityRead.sign <= 0
                  \/ VolatilityRead.sq_num < 4 * VolatilityRead.sq_den
        /\ (/\ VolatilityRead.sign > 0
            /\ VolatilityRead.sq_num >= 4 * VolatilityRead.sq_den
            /\ VolatilityRead.sq_num <= 100 * VolatilityRead.sq_den)
              => ~SaysRule("volatility")

\* a series whose volatility is exactly 10: no volatility statement
C14_Witness ==
    /\ Returned
    /\ VolatilityRead.sign > 0
    /\ VolatilityRead.sq_num = 100 * VolatilityRead.sq_den
    /\ ~SaysRule("volatility")
    /\ SaysRule("trend")

Uncut == Returned /\ insightRes.cap = MaxInsights

\* the outliers detect_outliers returned for the series of the last call
Outliers == outlierRes.rows

\* C15: when the series has outliers, generate_insights makes the
\* count-based statement iff their number exceeds 10% of the number of valid
\* points of the series, and otherwise a statement about one outlier, the one
\* of the latest timestamp; without outliers it makes no outlier statement.
C15_CountAboveTenthOfValid ==
    Uncut =>
        /\ Len(Outliers) = 0 => ~SaysRule("outlier")
        /\ Len(Outliers) > 0 =>
              /\ Says("outlier", "detectados") <=> 10 * Len(Outliers) > ValidCount(data)
              /\ Says("outlier", "ultimo") <=> 10 * Len(Outliers) <= ValidCount(data)
              /\ \A k \in 1..Len(insightRes.value) :
                    (insightRes.value[k].rule = "outlier"
                     /\ insightRes.value[k].wording = "ultimo")
                    => \A j \in 1..Len(Outliers) :
                          ~DateLess(insightRes.value[k].date, Outliers[j].date)

\* the same with the share taken of the rows of the frame, valid or not
C15_CountAboveTenthOfRows ==
    Uncut =>
        /\ Len(Outliers) = 0 => ~SaysRule("outlier")
        /\ Len(Outliers) > 0 =>
              /\ Says("outlier", "detectados") <=> 10 * Len(Outliers) > Len(data)
              /\ Says("outlier", "ultimo") <=> 10 * Len(Outliers) <= Len(data)
              /\ \A k \in 1..Len(insightRes.value) :
                    (insightRes.value[k].rule = "outlier"
                     /\ insightRes.value[k].wording = "ultimo")
                    => /\ \A j \in 1..Len(Outliers) :
                             ~DateLess(insightRes.value[k].date, Outliers[j].date)
                       /\ \E j \in 1..Len(Outliers) :
                             /\ insightRes.value[k].date = Outliers[j].date
                             /\ insightRes.value[k].value = Outliers[j].value

\* two outliers in twenty rows, the later one first in the frame: the
\* statement is about the later one
C15_Witness ==
    /\ Uncut
    /\ Len(data) = 20
    /\ Len(Outliers) = 2
    /\ DateLess(Outliers[2].date, Outliers[1].date)
    /\ \E k \in 1..Len(insightRes.value) :
          /\ insightRes.value[k].rule = "outlier"
          /\ insightRes.value[k].wording = "ultimo"
          /\ insightRes.value[k].date = Outliers[1].date

SpecificCount ==
    Cardinality({k \in 1..Len(insightRes.value) : insightRes.value[k].rule = "specific"})

LastValueKnown == "last_value" \in DOMAIN trendRes

\* C16: the indicator-specific rule makes at most one statement.  For ipca
\* with a known last value it makes exactly one: above target when the last
\* value is above 6, below target when it is below 3, within target
\* otherwise, 3 and 6 included.  For divida_pib a last value above 80 goes
\* before an ascending trend.  For selic the statement follows the direction
\* alone.  An unknown indicator gets none.
C16_SpecificRule ==
    Uncut =>
        /\ SpecificCount <= 1
        /\ (insightIndicator = "ipca" /\ LastValueKnown) =>
              /\ SpecificCount = 1
              /\ Says("specific", "acima da meta") <=> trendRes.last_value > 6
              /\ Says("specific", "abaixo da meta") <=> trendRes.last_value < 3
              /\ Says("specific", "dentro da meta")
                    <=> /\ trendRes.last_value >= 3
                        /\ trendRes.last_value <= 6
        /\ (insightIndicator = "divida_pib" /\ LastValueKnown) =>
              /\ Says("specific", "divida elevada") <=> trendRes.last_value > 80
              /\ Says("specific", "crescimento da divida")
                    <=> /\ trendRes.last_value <= 80
                        /\ trendRes.trend = "ascending"
        /\ insightIndicator = "selic" =>
              /\ Says("specific", "elevacao da Selic")
                    <=> trendRes.trend = "ascending"
              /\ Says("specific", "reducao da Selic")
                    <=> trendRes.trend = "descending"
              /\ SpecificCount = 1
                    <=> trendRes.trend \in {"ascending", "descending"}
        /\ insightIndicator
              \notin {"ipca", "selic", "pib", "cambio_usd", "divida_pib"} =>
              SpecificCount = 0

\* ipca with a last value of exactly 6: the within-target statement
C16_Witness ==
    /\ Uncut
    /\ insightIndicator = "ipca"
    /\ LastValueKnown
    /\ trendRes.last_value = 6
    /\ Says("specific", "dentro da meta")

\* C17: two calls of generate_insights with the same indicator and the same
\* series return the same list, whatever calls were made in between.
C17_Deterministic ==
    (/\ insightRes # None
     /\ insightIndicator = firstInsights.indicator
     /\ data = firstInsights.data
     /\ insightRes.cap = firstInsights.cap)
    => insightRes.value = firstInsights.value

\* the first call is repeated after a call on another series, and returns
\* the same four statements
C17_Witness ==
    /\ insightRes # None
    /\ firstInsights.interleaved
    /\ insightIndicator = firstInsights.indicator
    /\ data = firstInsights.data
    /\ insightRes.cap = firstInsights.cap
    /\ Len(firstInsights.value) = 4
    /\ insightRes.value = firstInsights.value

(***************************************************************************)
(* prepare_data and the split of train_model: the store of ipca holds any  *)
(* of PrepareLoads, the other store is empty; train_model is called with   *)
(* the test sizes of the slider.                                           *)
(***************************************************************************)
InitPrepare ==
    /\ db \in {d \in [Indicators -> PrepareLoads] : d[<<"divida", "pib">>] = NoSeries}
    /\ files = [p \in AllPaths |-> NoFile]
    /\ lastOp = [op |-> "init", raised |-> FALSE, result |-> None]
    /\ everTrained = {}
    /\ preFiles = files
    /\ PrepareIdle
    /\ RestIdle
    /\ AnalyzerIdle

NextPrepare ==
    \/ \E i \in Indicators, rev \in BOOLEAN : PrepareDataCall(i, rev)
    \/ \E i \in Indicators, t \in ModelTypes, ts \in SliderSizes, rev \in BOOLEAN,
          theta \in 0..MaxTheta, io \in {"ok", "open", "partial"} :
          TrainModel(i, t, ts, rev, theta, io)

SpecPrepare == InitPrepare /\ [][NextPrepare]_vars

(***************************************************************************)
(* Claims about prepare_data and the split, checked under SpecPrepare.     *)
(***************************************************************************)
PrepReturned == prepRes # None
PrepLoad == db[prepRes.indicator]
PrepInsufficient == ~prepRes.value.ok

\* The stored series has distinct timestamps and no missing value.
CompleteSeries == PrepLoad.status = "ok" /\ PrepLoad.nan = 0 /\ PrepLoad.dup = 0

\* The rows of the stored series, in chronological order.
Chronological == MkSeries(PrepLoad.n, PrepLoad.shape, PrepLoad.monthEnd, PrepLoad.nan)

\* C18: prepare_data with window 6 on a series of n distinct timestamps
\* without missing values returns (None, None, None) if and only if fewer
\* than 20 rows are left once the first 6 are dropped; otherwise, 20 rows
\* included, it returns exactly n - 6 feature rows: those of the series
\* without its first 6 rows, each with its own value as target.
C18_KeepsAllButWindow ==
    (PrepReturned /\ CompleteSeries) =>
        /\ PrepInsufficient <=> (PrepLoad.n - 6 < 20)
        /\ ~PrepInsufficient =>
              /\ Len(prepRes.value.X) = PrepLoad.n - 6
              /\ Len(prepRes.value.y) = PrepLoad.n - 6
              /\ prepRes.value.dates
                    = [j \in 1..(PrepLoad.n - 6) |-> Chronological[j + 6].date]
              /\ prepRes.value.y
                    = [j \in 1..(PrepLoad.n - 6) |-> Chronological[j + 6].value]

\* prepare_data returned the features of a complete series of 26 rows, stored
\* in descending order: exactly 20 feature rows.
C18_Witness ==
    /\ PrepReturned /\ CompleteSeries
    /\ PrepLoad.n = 26 /\ PrepLoad.desc
    /\ ~PrepInsufficient
    /\ Len(prepRes.value.X) = 20

Normalized == normalized # None
NormalRows == normalized.rows
StoredRows == Frame(db[normalized.indicator])

\* The position in the stored frame of the last row carrying timestamp d.
LastStored(d) ==
    CHOOSE j \in 1..Len(StoredRows) :
        /\ StoredRows[j].date = d
        /\ \A i \in (j + 1)..Len(StoredRows) : StoredRows[i].date # d

\* The position of timestamp d in the normalized frame.
NormalPosition(d) == CHOOSE t \in 1..Len(NormalRows) : NormalRows[t].date = d

\* The timestamps of the normalized frame increase strictly and are those of
\* the stored frame.
StrictlyIncreasing ==
    /\ \A t \in 1..(Len(NormalRows) - 1) :
          DateLess(NormalRows[t].date, NormalRows[t + 1].date)
    /\ {NormalRows[t].date : t \in 1..Len(NormalRows)}
          = {StoredRows[j].date : j \in 1..Len(StoredRows)}

\* lag_i of each returned row is the value i positions earlier in the
\* normalized frame.
LagsFromNormalized ==
    prepRes.value.ok =>
        \A j \in 1..Len(prepRes.value.X), i \in 1..WindowSize :
            /\ NormalPosition(prepRes.value.dates[j]) > i
            /\ prepRes.value.X[j][LagName[i]]
                  = Cell(NormalRows[NormalPosition(prepRes.value.dates[j]) - i].value)

\* C19: after the normalization step of prepare_data the timestamps increase
\* strictly, one row per timestamp; each row carries the value of the last
\* stored row of its timestamp; lag_i of each returned row is the value i
\* positions earlier in the normalized frame.
C19_KeepsLastStored ==
    Normalized =>
        /\ StrictlyIncreasing
        /\ \A t \in 1..Len(NormalRows) :
              NormalRows[t].value = StoredRows[LastStored(NormalRows[t].date)].value
        /\ LagsFromNormalized

\* The part of C19 that holds: strictly increasing timestamps, each row
\* carrying the value of one of the stored rows of its timestamp, and the
\* lags taken from the normalized frame.
C19_KeepsOneStored ==
    Normalized =>
        /\ StrictlyIncreasing
        /\ \A t \in 1..Len(NormalRows) :
              \E j \in 1..Len(StoredRows) : StoredRows[j] = NormalRows[t]
        /\ LagsFromNormalized

\* A frame stored with two rows of one timestamp was normalized, and its
\* features returned.
C19_Witness ==
    /\ Normalized
    /\ db[normalized.indicator].dup > 0
    /\ prepRes.value.ok

\* What prepare_data gave the last train_model call, and what the call
\* left in the model directory.
TrainedOn(rev) == Prepared(db[lastOp.indicator], rev)
TrainedRows == Len(TrainedOn(FALSE).X)
TrainedArtifact == files[ArtifactPath(lastOp.indicator)]
TrainCount == lastOp.result.metrics.samples_train
TestCount == lastOp.result.metrics.samples_test

\* floor(n * (1 - f)), f being lastOp.test_size percent
FloorSplit == (TrainedRows * (100 - lastOp.test_size)) \div 100

\* The partitions are a prefix and the remaining suffix of the feature
\* rows, every training timestamp precedes every test timestamp, and the
\* scaler saw the rows of the training partition and no others.
ChronologicalSplit ==
    /\ TrainCount + TestCount = TrainedRows
    /\ \A j \in 1..TrainCount, k \in (TrainCount + 1)..TrainedRows :
          DateLess(TrainedOn(FALSE).dates[j], TrainedOn(FALSE).dates[k])
    /\ TrainedArtifact.scaler.n_samples_seen = TrainCount
    /\ \E rev \in BOOLEAN :
          TrainedArtifact.scaler.col_sum
            = [c \in Range(TrainedOn(rev).columns) |->
                  ColSum(TrainedOn(rev).X, c, TrainCount)]

\* C20: train_model splits chronologically: of the n feature rows the first
\* floor(n * (1 - f)) are the training partition and the remaining ones the
\* held-out partition; every training timestamp precedes every test
\* timestamp; the scaler is fitted on the training partition only.
C20_SplitAtFloor ==
    TrainSucceeded => (TrainCount = FloorSplit /\ ChronologicalSplit)

\* The part of C20 that holds: the split is chronological, and the training
\* partition has floor(n * (1 - f)) rows or one row less.
C20_SplitNearFloor ==
    TrainSucceeded =>
        (TrainCount \in {FloorSplit, FloorSplit - 1} /\ ChronologicalSplit)

\* train_model succeeded on 90 feature rows with test_size 0.3.
C20_Witness ==
    /\ TrainSucceeded
    /\ TrainedRows = 90
    /\ lastOp.test_size = 30

(***************************************************************************)
(* The predictor where its calls fail: the stores hold any of LoadOutcomes *)
(* and change, train_model is called with the default test size and with   *)
(* test_size = 1.0, forecasts have one step.                               *)
(***************************************************************************)
NextFailures ==
    \/ \E i \in Indicators, ts \in TestSizes \cup {NoTrainingSize}, rev \in BOOLEAN,
          theta \in 0..MaxTheta, io \in {"ok", "open", "partial"} :
          TrainModel(i, <<"random", "forest">>, ts, rev, theta, io)
    \/ \E i \in Indicators, rev \in BOOLEAN : PredictFuture(i, 1, rev)
    \/ \E i \in Indicators : GetFeatureImportance(i)
    \/ \E i \in Indicators, load \in LoadOutcomes : StoreUpdate(i, load)

SpecFailures == Init /\ [][NextFailures]_vars

\* The last call was one of the three guarded entry points.
Guarded == lastOp.op \in {"train_model", "predict_future", "get_feature_importance"}
ReadsArtifact == lastOp.op \in {"predict_future", "get_feature_importance"}
ReadsStore == lastOp.op \in {"train_model", "predict_future"}
CalledOn == lastOp.indicator

\* The artifact of the indicator was missing, or could not be loaded, when
\* the call began.
ArtifactMissing == ReadsArtifact /\ ~Exists(preFiles, ArtifactPath(CalledOn))
ArtifactUnreadable == ReadsArtifact /\ preFiles[ArtifactPath(CalledOn)] = Corrupt

\* The call got as far as the store, and the store gave no data, raised, or
\* gave too few rows.
ReachedStore ==
    \/ lastOp.op = "train_model"
    \/ lastOp.op = "predict_future" /\ ~ArtifactMissing /\ ~ArtifactUnreadable
NoDataFromStore == ReachedStore /\ db[CalledOn].status = "none"
StoreRaised == ReachedStore /\ db[CalledOn].status = "error"
TooFewRows ==
    /\ ReachedStore
    /\ db[CalledOn].status = "ok"
    /\ db[CalledOn].n - WindowSize - (IF db[CalledOn].nan = 0 THEN 0 ELSE 1) < MinRows

\* Fitting raised (an empty training partition), or the dump did.
FitRaised ==
    /\ lastOp.op = "train_model"
    /\ ~NoDataFromStore /\ ~StoreRaised /\ ~TooFewRows
    /\ lastOp.test_size = NoTrainingSize
DumpRaised == lastOp.op = "train_model" /\ lastOp.dump \in {"open", "partial"}

FailureCase ==
    \/ ArtifactMissing \/ ArtifactUnreadable
    \/ NoDataFromStore \/ StoreRaised \/ TooFewRows
    \/ FitRaised \/ DumpRaised

\* C21: train_model, predict_future and get_feature_importance raise
\* nothing; when the artifact is missing or unreadable, the store gives no
\* data or raises, fewer than 20 feature rows remain, or fitting or
\* persisting raises, the call returns None.
C21_FailuresReturnNone ==
    Guarded => (~lastOp.raised /\ (FailureCase => lastOp.result = None))

\* Each kind of failure happened in a call that returned None: an unreadable
\* artifact, here.
C21_Witness ==
    /\ lastOp.op = "predict_future"
    /\ ArtifactUnreadable
    /\ lastOp.result = None
    /\ ~lastOp.raised

\* The paths whose file the last call changed.
Written == {p \in AllPaths : files[p] # preFiles[p]}
WasTrained(i) == preFiles[ArtifactPath(i)].kind = "artifact"
StaysTrained(i) == files[ArtifactPath(i)] = preFiles[ArtifactPath(i)]

\* C22: a file of the model directory changes only in a train_model call
\* that reached joblib.dump, and then only the artifact of the indicator
\* trained; predict_future and get_feature_importance change no file; a
\* train_model(i) that returns before the dump leaves the artifact of i as
\* it was; a train_model call that succeeds leaves the artifact it returned
\* the metrics of.
C22_OnlyTrainingWrites ==
    /\ Written # {} => (lastOp.op = "train_model" /\ lastOp.dump \in {"ok", "partial"})
    /\ ReadsArtifact => Written = {}
    /\ (lastOp.op = "train_model" /\ lastOp.dump = "skipped") =>
          (Written = {} /\ lastOp.result = None)
    /\ lastOp.op = "train_model" => Written \subseteq {ArtifactPath(CalledOn)}
    /\ (lastOp.op = "train_model" /\ lastOp.result # None) =>
          (/\ files[ArtifactPath(CalledOn)].kind = "artifact"
           /\ files[ArtifactPath(CalledOn)].metrics = lastOp.result.metrics)

\* train_model(i) failed before the dump while an artifact of i and one of
\* another indicator were persisted: both are as they were.
C22_Witness ==
    /\ lastOp.op = "train_model"
    /\ lastOp.dump = "skipped"
    /\ \A i \in Indicators : WasTrained(i) /\ StaysTrained(i)

(***************************************************************************)
(* predict_future on artifacts whose schema is not the one prepare_data    *)
(* builds: the model directory outlives the version of the program that    *)
(* wrote it.                                                               *)
(***************************************************************************)
\* Schemas of artifacts written with a window of 7, without the calendar
\* columns, and with fewer lags in another order.
ForeignSchemas ==
    {<<"lag_1", "lag_2", "lag_3", "lag_4", "lag_5", "lag_6", "lag_7",
       "ma_3", "ma_6", "month", "quarter">>,
     <<"lag_1", "lag_2", "lag_3", "lag_4", "lag_5", "lag_6", "ma_3", "ma_6">>,
     <<"quarter", "month", "lag_2", "lag_1", "ma_12">>}

\* An artifact as train_model writes it, but fitted on the columns of schema.
ForeignArtifact(model_data, schema) ==
    [model_data EXCEPT
        !.feature_columns = schema,
        !.model = [@ EXCEPT !.n_features_in = Len(schema),
                            !.feature_importances = [j \in 1..Len(schema) |-> j % 3]],
        !.scaler = [n_samples_seen   |-> model_data.scaler.n_samples_seen,
                    feature_names_in |-> schema,
                    col_sum   |-> [c \in Range(schema) |->
                                     IF c \in DOMAIN model_data.scaler.col_sum
                                     THEN model_data.scaler.col_sum[c] ELSE 0],
                    col_sumsq |-> [c \in Range(schema) |->
                                     IF c \in DOMAIN model_data.scaler.col_sumsq
                                     THEN model_data.scaler.col_sumsq[c] ELSE 0]]]

\* The series of LoadOutcomes that suffices for training.
TrainableLoad == CHOOSE load \in LoadOutcomes : load.n = SufficientLen + 1

InitAlign ==
    /\ db \in [Indicators -> LoadOutcomes]
    /\ \E schema \in ForeignSchemas, theta \in 0..MaxTheta :
          files = [p \in AllPaths |->
                     IF p = ArtifactPath(<<"ipca">>)
                     THEN ForeignArtifact(
                              TrainingTable[TrainableLoad, <<"ipca">>, 20, FALSE, theta].model_data,
                              schema)
                     ELSE NoFile]
    /\ lastOp = [op |-> "init", raised |-> FALSE, result |-> None]
    /\ everTrained = {<<"ipca">>}
    /\ preFiles = files
    /\ PrepareIdle
    /\ RestIdle
    /\ AnalyzerIdle

NextAlign ==
    \/ \E i \in Indicators, steps \in 0..MaxSteps, rev \in BOOLEAN :
          PredictFuture(i, steps, rev)
    \/ \E i \in Indicators : GetFeatureImportance(i)
    \/ \E i \in Indicators, theta \in 0..MaxTheta, io \in {"ok", "open", "partial"} :
          TrainModel(i, <<"random", "forest">>, 20, FALSE, theta, io)

SpecAlign == InitAlign /\ [][NextAlign]_vars

\* What predict_future found: the schema of the artifact and the feature
\* table it rebuilt.
StoredSchema == preFiles[ArtifactPath(lastOp.indicator)].feature_columns
Rebuilt == Prepared(db[lastOp.indicator], FALSE)
LastRebuilt == Rebuilt.X[Len(Rebuilt.X)]
SchemaMismatch == Range(StoredSchema) # Range(Rebuilt.columns)

\* C23: the feature row predict_future hands to the scaler has the columns
\* of the artifact's schema, in the schema's order: a column the rebuilt
\* table has carries the value of its last row, a column it lacks carries 0,
\* and a column of the rebuilt table outside the schema is left out; with a
\* readable artifact and a feature table, predict_future returns a forecast
\* of steps rows whatever the schema.
C23_RowAlignedToSchema ==
    /\ IsForecast =>
          /\ lastOp.result.columns = StoredSchema
          /\ \A k \in 1..Len(lastOp.result.inputs) :
                /\ DOMAIN lastOp.result.inputs[k] = Range(StoredSchema)
                /\ \A c \in Range(StoredSchema) :
                      lastOp.result.inputs[k][c]
                        = IF c \in Range(Rebuilt.columns) THEN LastRebuilt[c] ELSE Cell(0)
    /\ (/\ IsPredict
        /\ preFiles[ArtifactPath(lastOp.indicator)].kind = "artifact"
        /\ Rebuilt.ok)
       => (/\ IsForecast
           /\ ~lastOp.raised
           /\ Len(lastOp.result.rows) = lastOp.steps)

\* A forecast from an artifact whose schema has a column the rebuilt table
\* lacks and lacks a column the rebuilt table has.
C23_Witness ==
    /\ IsForecast
    /\ lastOp.steps >= 1
    /\ Range(StoredSchema) \ Range(Rebuilt.columns) # {}
    /\ Range(Rebuilt.columns) \ Range(StoredSchema) # {}

(***************************************************************************)
(* BCBDataCollector.  A call of _make_request is a thread's walk through   *)
(* the method; self.stats[key] += 1 is a read of the counter followed by a *)
(* write of the value read plus one, and another thread may run between    *)
(* the two.  A wait is kept as the factor that multiplies self.delay.      *)
(***************************************************************************)
\* What one attempt can end in: a non-empty response, one that get_data
\* rejects afterwards, an empty one, requests.exceptions.RequestException,
\* json.JSONDecodeError, and an exception of neither class.
Outcomes ==
    {"data", "invalid_data", "empty", "request_exception", "json_decode_error",
     "other_exception"}

NoStats == [total_requests |-> 0, successful_requests |-> 0, failed_requests |-> 0]

\* A call that has not started: retries is its retry budget, attempt the
\* loop variable and tmp the value read by the += in progress, both back
\* at 0 once the call has returned.
NewCall(pc, retries) ==
    [pc |-> pc, retries |-> retries, attempt |-> 0, tmp |-> 0, valid |-> FALSE,
     result |-> "pending"]

Running == {w \in DOMAIN calls : calls[w].pc \notin {"queued", "done"}}

\* The executor hands a queued task to a free worker.
StartWorker(w) ==
    /\ calls # None
    /\ w \in DOMAIN calls
    /\ calls[w].pc = "queued"
    /\ Cardinality(Running) < MaxWorkers
    /\ calls' = [calls EXCEPT ![w].pc = "read_total"]
    /\ UNCHANGED <<stats, requestLog, results, reportVars, sessionVars, mlVars, analyzerVars>>

\* self.stats['total_requests'] += 1: the read
ReadTotal(w) ==
    /\ calls # None
    /\ w \in DOMAIN calls
    /\ calls[w].pc = "read_total"
    /\ calls' = [calls EXCEPT ![w].pc = "write_total", ![w].tmp = stats.total_requests]
    /\ UNCHANGED <<stats, requestLog, results, reportVars, sessionVars, mlVars, analyzerVars>>

\* self.stats['total_requests'] += 1: the write
WriteTotal(w) ==
    /\ calls # None
    /\ w \in DOMAIN calls
    /\ calls[w].pc = "write_total"
    /\ stats' = [stats EXCEPT !.total_requests = calls[w].tmp + 1]
    /\ calls' = [calls EXCEPT ![w].pc = "attempt", ![w].tmp = 0]
    /\ UNCHANGED <<requestLog, results, reportVars, sessionVars, mlVars, analyzerVars>>

\* time.sleep(self.delay * (attempt + 1)) in the handler of
\* RequestException, when attempts are left.
WaitAfter(outcome, attempt, retries) ==
    IF outcome = "request_exception" /\ attempt < retries
    THEN <<[ev |-> "sleep", factor |-> attempt + 1]>>
    ELSE <<>>

\* Where the call stands after an attempt that ended in outcome.
AfterAttempt(call, outcome) ==
    CASE outcome \in {"data", "invalid_data"} ->
             [call EXCEPT !.pc = "read_successful", !.valid = (outcome = "data")]
      [] outcome \in {"empty", "request_exception"} /\ call.attempt < call.retries ->
             [call EXCEPT !.attempt = @ + 1]
      [] outcome = "empty" /\ call.attempt >= call.retries ->
             [call EXCEPT !.pc = "done", !.attempt = 0, !.result = "none"]
      [] outcome = "request_exception" /\ call.attempt >= call.retries ->
             [call EXCEPT !.pc = "read_failed"]
      [] outcome = "json_decode_error" -> [call EXCEPT !.pc = "read_failed"]
      [] outcome = "other_exception" ->
             [call EXCEPT !.pc = "done", !.attempt = 0, !.result = "raised"]

\* One pass of the loop body: requests.get, raise_for_status, json, and the
\* handler of what was raised.
Attempt(w, outcome) ==
    /\ calls # None
    /\ w \in DOMAIN calls
    /\ calls[w].pc = "attempt"
    /\ calls' = [calls EXCEPT ![w] = AfterAttempt(calls[w], outcome)]
    /\ requestLog' =
          IF requestLog = None THEN None
          ELSE [requestLog EXCEPT
                  !.entries = @ \o <<[ev |-> "attempt", number |-> calls[w].attempt + 1,
                                      outcome |-> outcome]>>
                                \o WaitAfter(outcome, calls[w].attempt, calls[w].retries)]
    /\ UNCHANGED <<stats, results, reportVars, sessionVars, mlVars, analyzerVars>>

\* self.stats[key] += 1 for successful_requests or failed_requests: the read
ReadCounter(w) ==
    /\ calls # None
    /\ w \in DOMAIN calls
    /\ calls[w].pc \in {"read_successful", "read_failed"}
    /\ calls' = [calls EXCEPT
                   ![w].pc = IF calls[w].pc = "read_successful" THEN "write_successful"
                             ELSE "write_failed",
                   ![w].tmp = IF calls[w].pc = "read_successful"
                              THEN stats.successful_requests ELSE stats.failed_requests]
    /\ UNCHANGED <<stats, requestLog, results, reportVars, sessionVars, mlVars, analyzerVars>>

\* ... the write, and the return that follows it: data after
\* successful_requests, None after failed_requests.  In a batch, get_data
\* and collect_single follow, and the main thread puts the indicator into
\* results when the DataFrame is not None.
WriteCounter(w) ==
    /\ calls # None
    /\ w \in DOMAIN calls
    /\ calls[w].pc \in {"write_successful", "write_failed"}
    /\ stats' = IF calls[w].pc = "write_successful"
                 THEN [stats EXCEPT !.successful_requests = calls[w].tmp + 1]
                 ELSE [stats EXCEPT !.failed_requests = calls[w].tmp + 1]
    /\ calls' = [calls EXCEPT
                   ![w].pc = "done",
                   ![w].attempt = 0,
                   ![w].tmp = 0,
                   ![w].result = IF calls[w].pc = "write_successful" THEN "data"
                                 ELSE "none"]
    /\ results' = IF results = None THEN None
                   ELSE IF calls[w].pc = "write_successful" /\ calls[w].valid
                        THEN [results EXCEPT !.keys = @ \cup {w}] ELSE results
    /\ UNCHANGED <<requestLog, reportVars, sessionVars, mlVars, analyzerVars>>

(***************************************************************************)
(* ReportGenerator.generate_economic_overview.  The report is kept as the  *)
(* keys of its indicators section and its predictions section; the trend   *)
(* analyses, insights and correlations inside it are those of the analyzer *)
(* above.  The predictor is read, never written: what predict_future finds  *)
(* for an indicator, its artifact and its stored series, is an input, and  *)
(* what it returned is kept beside the report.                             *)
(***************************************************************************)
\* main_indicators, and the indicators of section 3
MainIndicators == {"ipca", "selic", "pib", "cambio_usd", "divida_pib"}
PredictedIndicators == {"ipca", "selic", "pib"}

\* steps=6
OverviewSteps == 6

\* The series of LoadOutcomes with a missing value.
GappedLoad == CHOOSE load \in LoadOutcomes : load.nan > 0

\* The artifact train_model leaves for a complete series.
TrainedModel(theta) ==
    TrainingTable[TrainableLoad, <<"ipca">>, CHOOSE ts \in TestSizes : TRUE, FALSE,
                  theta].model_data

\* What predict_future can find for one indicator.
Situations ==
    {[artifact |-> a, load |-> TrainableLoad] :
        a \in {NoFile, Corrupt} \cup {TrainedModel(theta) : theta \in 0..MaxTheta}}
    \cup {[artifact |-> TrainedModel(0), load |-> load] : load \in {NoSeries, GappedLoad}}

\* predict_future(indicator, steps=6), tabulated.
PredictionTable ==
    [s \in Situations |->
        TryExcept(Forecast([p \in AllPaths |-> s.artifact], s.load, <<"ipca">>,
                           OverviewSteps, FALSE))]

\* prediction = self.predictor.predict_future(indicator, steps=6)
OverviewPrediction(s) == PredictionTable[s]

\* 'ascending' if prediction['value'].iloc[-1] > prediction['value'].iloc[0]
\* else 'descending'
TrendForecast(prediction) ==
    IF prediction.rows[Len(prediction.rows)].value > prediction.rows[1].value
    THEN "ascending" ELSE "descending"

\* A variant of PredictionsSection: the loop ends at the first indicator
\* without a forecast.
PredictionsUntilFailure(found) ==
    IF \E i \in PredictedIndicators : OverviewPrediction(found[i]).result = None
    THEN << >>
    ELSE [i \in PredictedIndicators |->
            [forecast |-> OverviewPrediction(found[i]).result.rows,
             trend_forecast |-> TrendForecast(OverviewPrediction(found[i]).result)]]

\* Section 3: for each indicator, try: the forecast and its label when
\* prediction is not None; except Exception: a warning.
PredictionsSection(found) ==
    [i \in {j \in PredictedIndicators :
               /\ ~OverviewPrediction(found[j]).raised
               /\ OverviewPrediction(found[j]).result # None} |->
        [forecast |-> OverviewPrediction(found[i]).result.rows,
         trend_forecast |-> TrendForecast(OverviewPrediction(found[i]).result)]]

\* The stores section 1 is examined on: the main indicators with rows in
\* the period.
StoredSets == {{"ipca"}, MainIndicators}

\* The thread that generates the report is the one that called
\* collect_indicator_batch, which returns when every task is done.
CollectorAtRest ==
    IF calls = None THEN TRUE ELSE \A w \in DOMAIN calls : calls[w].pc = "done"

NothingExamined == [kind |-> "examined", forecasts |-> {}, labels |-> {}]

GenerateEconomicOverview(stored, found) ==
    /\ CollectorAtRest
    /\ report' = [kind |-> "report",
                  returned |-> [i \in PredictedIndicators |->
                                  OverviewPrediction(found[i])],
                  indicators |-> stored,
                  predictions |-> PredictionsSection(found)]
    /\ examined' =
          [examined EXCEPT
             !.forecasts = @ \cup {OverviewPrediction(found[i]).result :
                                     i \in DOMAIN PredictionsSection(found)},
             !.labels = @ \cup {PredictionsSection(found)[i].trend_forecast :
                                  i \in DOMAIN PredictionsSection(found)}]
    /\ UNCHANGED <<collectorVars, sessionVars, mlVars, analyzerVars>>

(***************************************************************************)
(* One call of _make_request(url, retries), its attempts and waits logged. *)
(***************************************************************************)
InitRequest ==
    /\ stats = NoStats
    /\ \E r \in 0..MaxRetries : calls = [w \in {"url"} |-> NewCall("read_total", r)]
    /\ requestLog = [kind |-> "log", entries |-> <<>>]
    /\ results = None
    /\ report = None
    /\ examined = None
    /\ session = None
    /\ logged = None
    /\ PredictorIdle
    /\ AnalyzerIdle

NextRequest ==
    \/ ReadTotal("url")
    \/ WriteTotal("url")
    \/ \E outcome \in Outcomes : Attempt("url", outcome)
    \/ ReadCounter("url")
    \/ WriteCounter("url")

SpecRequest == InitRequest /\ [][NextRequest]_vars

\* The attempts of the call so far, and the entry that precedes an attempt.
TheCall == calls["url"]
Entries == requestLog.entries
AttemptAt(p) == Entries[p].ev = "attempt"
AttemptsMade == {p \in 1..Len(Entries) : AttemptAt(p)}
Retried(p) == AttemptAt(p) /\ Entries[p].number >= 2
WaitedBefore(p) ==
    /\ p >= 2
    /\ Entries[p - 1].ev = "sleep"
    /\ Entries[p - 1].factor = Entries[p].number - 1

\* At most retries + 1 attempts, numbered from 1 on; the call returns data
\* exactly when its last attempt had a non-empty response, and no attempt
\* follows one.
BoundedAttempts ==
    /\ Cardinality(AttemptsMade) <= TheCall.retries + 1
    /\ \A p \in AttemptsMade :
          /\ Entries[p].number = Cardinality({q \in AttemptsMade : q <= p})
          /\ Entries[p].outcome \in {"data", "invalid_data"} => p = Len(Entries)
    /\ TheCall.result = "data" =>
          Entries[Len(Entries)].outcome \in {"data", "invalid_data"}

\* C25: a call of _make_request with retry budget r makes at most r + 1
\* attempts, returns the data of the first attempt with a non-empty
\* response, and every attempt after the first comes after a wait of delay
\* times the number of the attempt before it.
C25_EveryRetryWaits ==
    /\ BoundedAttempts
    /\ \A p \in 1..Len(Entries) : Retried(p) => WaitedBefore(p)

\* The part of C25 that holds: the bound, the result, and the wait before a
\* retry that follows a RequestException; a retry that follows an empty
\* response comes at once.
C25_RetryAfterExceptionWaits ==
    /\ BoundedAttempts
    /\ \A p \in 1..Len(Entries) :
          Retried(p) =>
              IF Entries[p - 1].ev = "sleep"
              THEN WaitedBefore(p) /\ Entries[p - 2].outcome = "request_exception"
              ELSE Entries[p - 1].outcome = "empty"

\* Three attempts: the second after a wait, the third, which brought data,
\* right after an empty response.
C25_Witness ==
    /\ TheCall.result = "data"
    /\ Len(Entries) = 4
    /\ Entries[2].ev = "sleep"
    /\ Entries[3].outcome = "empty"
    /\ Entries[4].outcome = "data"

(***************************************************************************)
(* collect_all_data on a batch: the counters are reset, every indicator is *)
(* submitted to the executor, and its workers run get_data side by side.   *)
(* One report is generated, by the thread that called the collection.      *)
(***************************************************************************)
BatchIndicators == {"ipca", "selic", "pib"}

InitBatch ==
    /\ stats = NoStats
    /\ calls = [w \in BatchIndicators |-> NewCall("queued", BatchRetries)]
    /\ requestLog = None
    /\ results = [kind |-> "dict", keys |-> {}]
    /\ report = None
    /\ examined = NothingExamined
    /\ session = None
    /\ logged = None
    /\ PredictorIdle
    /\ AnalyzerIdle

NextBatch ==
    \/ \E w \in BatchIndicators : StartWorker(w)
    \/ \E w \in BatchIndicators : ReadTotal(w)
    \/ \E w \in BatchIndicators : WriteTotal(w)
    \/ \E w \in BatchIndicators, outcome \in Outcomes : Attempt(w, outcome)
    \/ \E w \in BatchIndicators : ReadCounter(w)
    \/ \E w \in BatchIndicators : WriteCounter(w)
    \/ /\ report = None
       /\ \E stored \in StoredSets, found \in [PredictedIndicators -> Situations] :
             GenerateEconomicOverview(stored, found)

SpecBatch == InitBatch /\ [][NextBatch]_vars

\* successful_requests + failed_requests <= total_requests
CountersConsistent ==
    stats.successful_requests + stats.failed_requests <= stats.total_requests

\* C27: in every state of a batch, whatever the interleaving of its
\* workers, successful_requests plus failed_requests is at most
\* total_requests, and total_requests is the number of calls of
\* _make_request that have counted themselves.
C27_CountersConsistent ==
    /\ CountersConsistent
    /\ (\A w \in BatchIndicators : calls[w].pc = "done") =>
          stats.total_requests = Cardinality(BatchIndicators)

\* The tasks of the batch by how they ended, and a step of one task.
BatchDone == \A w \in BatchIndicators : calls[w].pc = "done"
Fetched == {w \in BatchIndicators : calls[w].result = "data" /\ calls[w].valid}
FetchFailed == {w \in BatchIndicators : calls[w].pc = "done" /\ w \notin Fetched}
FetchRaised == {w \in BatchIndicators : calls[w].result = "raised"}
TaskStep(w) ==
    \/ StartWorker(w)
    \/ ReadTotal(w)
    \/ WriteTotal(w)
    \/ \E outcome \in Outcomes : Attempt(w, outcome)
    \/ ReadCounter(w)
    \/ WriteCounter(w)

\* The indicators whose predict_future call gave a forecast.
Reported == report # None /\ report.kind = "report"
Forecasted == {i \in PredictedIndicators : report.returned[i].result # None}

\* C24: in a batch, a task that is not done can take its next step whatever
\* became of the others, the result never holds an indicator whose fetch
\* gave no data, and when the batch is done it holds exactly those whose
\* fetch gave data; the predictions section of the overview holds exactly
\* the indicators whose forecast did not fail, each with its own forecast.
C24_IndependentIndicators ==
    /\ \A w \in BatchIndicators : calls[w].pc # "done" => ENABLED TaskStep(w)
    /\ results.keys \subseteq Fetched
    /\ BatchDone => results.keys = Fetched
    /\ Reported =>
          /\ DOMAIN report.predictions = Forecasted
          /\ \A i \in Forecasted :
                report.predictions[i].forecast = report.returned[i].result.rows

\* A batch in which one fetch raised, one gave nothing and the third gave
\* data, and an overview in which the forecast of ipca failed and the other
\* two are reported.
C24_Witness ==
    /\ BatchDone
    /\ FetchRaised = {"ipca"}
    /\ calls["selic"].result = "none"
    /\ results.keys = {"pib"}
    /\ Reported
    /\ Forecasted = {"selic", "pib"}
    /\ DOMAIN report.predictions = {"selic", "pib"}

(***************************************************************************)
(* Overviews generated one after the other, over every situation the       *)
(* predictor can be in.                                                    *)
(***************************************************************************)
InitOverview ==
    /\ stats = None
    /\ calls = None
    /\ requestLog = None
    /\ results = None
    /\ report = None
    /\ examined = NothingExamined
    /\ session = None
    /\ logged = None
    /\ PredictorIdle
    /\ AnalyzerIdle

NextOverview ==
    \E stored \in StoredSets, found \in [PredictedIndicators -> Situations] :
        GenerateEconomicOverview(stored, found)

SpecOverview == InitOverview /\ [][NextOverview]_vars

\* The forecasts predict_future returns in these situations.
EngineForecasts == {PredictionTable[s].result : s \in Situations} \ {None}
AllExamined == examined.forecasts = EngineForecasts

\* C26: once the overviews have been given every forecast the engine
\* produces, the label 'ascending' has been attached to one of them and
\* 'descending' to another.
C26_LabelDistinguishes ==
    AllExamined => examined.labels = {"ascending", "descending"}

\* What holds instead: every label ever attached is 'descending', because
\* the values of a forecast are equal at every step.
C26_AlwaysDescending ==
    /\ examined.labels \subseteq {"descending"}
    /\ \A f \in examined.forecasts :
          \A k \in 1..Len(f.rows) : f.rows[k].value = f.rows[1].value

C26_Witness ==
    /\ AllExamined
    /\ Cardinality(EngineForecasts) >= 2
    /\ examined.labels = {"descending"}

(***************************************************************************)
(* The direction analyze_trend reports against the sign of the slope,      *)
(* checked under SpecAnalyzer.                                             *)
(***************************************************************************)
\* The valid values of the series are all equal: deviation 0 and slope 0.
ConstantSeries == VarY(Points(data)) = 0

\* C28: when analyze_trend reports descending the slope is negative, when
\* it reports ascending the slope is positive, and a series whose values
\* are all equal is reported stable.
C28_DirectionMatchesSlope ==
    Classified =>
        /\ trendRes.trend = "descending" => trendRes.slope.num < 0
        /\ trendRes.trend = "ascending" => trendRes.slope.num > 0
        /\ ConstantSeries => trendRes.trend = "stable"

\* What holds instead: ascending goes with a positive slope; descending
\* with a negative slope or with a series of equal values, which has slope
\* 0 and is never called stable.
C28_ConstantIsDescending ==
    Classified =>
        /\ trendRes.slope.den > 0
        /\ trendRes.trend = "ascending" => trendRes.slope.num > 0
        /\ trendRes.trend = "descending" =>
              (trendRes.slope.num < 0 \/ ConstantSeries)
        /\ ConstantSeries =>
              (trendRes.slope.num = 0 /\ trendRes.trend = "descending")

C28_Witness ==
    /\ Classified
    /\ ConstantSeries
    /\ Len(Points(data)) >= 3
    /\ trendRes.trend = "descending"
    /\ trendRes.slope.num = 0

(***************************************************************************)
(* generate_insights on a series analyze_trend cannot classify, checked    *)
(* under SpecInsights.                                                     *)
(***************************************************************************)
Unclassified == Returned /\ trendRes.trend = "insufficient_data"
RulesSaid == {insightRes.value[k].rule : k \in 1..Len(insightRes.value)}

\* C29: when analyze_trend returns insufficient_data for a non-empty
\* series, generate_insights returns neither a trend statement nor a
\* volatility statement.
C29_NoVolatilityWithoutTrend ==
    Unclassified => RulesSaid \cap {"trend", "volatility"} = {}

\* What holds instead: there is no trend statement, and the first statement
\* is the one of low volatility, with the default 0 in place of a
\* volatility that was never computed.
C29_LowVolatilityByDefault ==
    Unclassified =>
        /\ "volatility" \notin DOMAIN trendRes
        /\ "trend" \notin RulesSaid
        /\ insightRes.value # <<>>
        /\ insightRes.value[1] = [rule |-> "volatility", wording |-> "baixa"]

C29_Witness ==
    /\ Unclassified
    /\ Len(data) = 2
    /\ ValidCount(data) = 2
    /\ insightRes.value[1].rule = "volatility"

(***************************************************************************)
(* SessionManager.  st.session_state is kept as the set of its keys and    *)
(* the value of action_history; timestamps are the number of the call on   *)
(* the session's clock.                                                    *)
(***************************************************************************)
\* if len(st.session_state.action_history) > 50
HistoryCap == 50

\* log_action calls examined after the stored history
MaxLogged == 4

SessionKeys ==
    {"current_page", "session_start", "cached_data", "action_history", "module_status"}

ActionNames == {"page_view", "train_model"}
\* details: None, an empty dict, a dict with an entry
DetailsGiven == {"None", "empty", "indicator"}

\* details or {}
DetailsOr(details) == IF details \in {"None", "empty"} THEN "empty" ELSE details

LogEntry(timestamp, action, details) ==
    [timestamp |-> timestamp, action |-> action, details |-> DetailsOr(details)]

\* A variant of KeepLatest: the first 50 entries are kept.
KeepOldest(action_history) ==
    IF Len(action_history) > HistoryCap THEN SubSeq(action_history, 1, HistoryCap)
    ELSE action_history

\* if len(action_history) > 50: action_history = action_history[-50:]
KeepLatest(action_history) ==
    IF Len(action_history) > HistoryCap
    THEN SubSeq(action_history, Len(action_history) - HistoryCap + 1, Len(action_history))
    ELSE action_history

\* A session no code has touched.
FreshSession ==
    [kind |-> "session_state", present |-> {}, action_history |-> <<>>,
     last |-> "none", raised |-> FALSE]

\* The session after initialize_session and h calls of log_action('page_view').
UsedSession(h) ==
    [kind |-> "session_state", present |-> SessionKeys,
     action_history |-> KeepLatest([k \in 1..h |-> LogEntry(k, "page_view", "None")]),
     last |-> IF h = 0 THEN "initialize_session" ELSE "log_action", raised |-> FALSE]

UsedLog(h) ==
    [kind |-> "log", entries |-> [k \in 1..h |-> LogEntry(k, "page_view", "None")],
     calls |-> 0]

\* The histories the calls start from: two entries below the cap, and at it.
StoredLengths == {HistoryCap - 2, HistoryCap}

\* Each key is set only if it is not in st.session_state.
InitializeSession ==
    /\ session # None
    /\ session' = [session EXCEPT
                     !.present = SessionKeys,
                     !.action_history =
                        IF "action_history" \in session.present THEN @ ELSE <<>>,
                     !.last = "initialize_session",
                     !.raised = FALSE]
    /\ UNCHANGED <<logged, collectorVars, reportVars, mlVars, analyzerVars>>

\* st.session_state.action_history.append(entry) raises AttributeError on a
\* session without the key; otherwise the entry is appended and the list cut.
LogAction(action, details) ==
    /\ session # None
    /\ logged.calls < MaxLogged
    /\ IF "action_history" \notin session.present
       THEN /\ session' = [session EXCEPT !.last = "log_action", !.raised = TRUE]
            /\ logged' = [logged EXCEPT !.calls = @ + 1]
       ELSE /\ session' =
                 [session EXCEPT
                    !.action_history =
                       KeepLatest(Append(@, LogEntry(Len(logged.entries) + 1, action,
                                                   details))),
                    !.last = "log_action",
                    !.raised = FALSE]
            /\ logged' =
                 [logged EXCEPT
                    !.entries = Append(@, LogEntry(Len(logged.entries) + 1, action,
                                                   details)),
                    !.calls = @ + 1]
    /\ UNCHANGED <<collectorVars, reportVars, mlVars, analyzerVars>>

InitSession ==
    /\ \/ session = FreshSession /\ logged = UsedLog(0)
       \/ \E h \in StoredLengths : session = UsedSession(h) /\ logged = UsedLog(h)
    /\ stats = None
    /\ calls = None
    /\ requestLog = None
    /\ results = None
    /\ report = None
    /\ examined = None
    /\ PredictorIdle
    /\ AnalyzerIdle

NextSession ==
    \/ InitializeSession
    \/ \E action \in ActionNames, details \in DetailsGiven : LogAction(action, details)

SpecSession == InitSession /\ [][NextSession]_vars

HasHistory == "action_history" \in session.present
LoggedCount == Len(logged.entries)

\* C30: on an initialized session action_history has min(n, 50) entries,
\* the last min(n, 50) of the n actions logged, in the order they were
\* logged; initialize_session leaves an existing history as it is.
C30_HistoryIsLastFifty ==
    /\ HasHistory =>
          /\ Len(session.action_history) <= HistoryCap
          /\ Len(session.action_history) = Min(LoggedCount, HistoryCap)
          /\ \A k \in 1..Len(session.action_history) :
                session.action_history[k] =
                   logged.entries[LoggedCount - Len(session.action_history) + k]
    /\ ~HasHistory => LoggedCount = 0

\* initialize_session was called on a session that had logged 53 actions:
\* the history is the 50 latest, from the fourth on.
C30_Witness ==
    /\ session.last = "initialize_session"
    /\ LoggedCount = HistoryCap + 3
    /\ Len(session.action_history) = HistoryCap
    /\ session.action_history[1].timestamp = 4
    /\ session.action_history[HistoryCap].action = "train_model"
    /\ session.action_history[HistoryCap].details = "indicator"

====
